---- MODULE Spec2Model ----
(***************************************************************************)
(* A model of the Semantic Scholar tool adapter                            *)
(* (src/src/semantic_scholar_mcp/server.py): the adapter's configuration,  *)
(* the call dispatch, the four call handlers with their request building   *)
(* and response mapping, and the upstream service as the environment.      *)
(***************************************************************************)
EXTENDS Integers, Sequences, FiniteSets, TLC

(***************************************************************************)
(* Python values.  Every value is a record of the same shape, tagged by    *)
(* its Python type: t = "absent" marks a key that a mapping does not hold. *)
(***************************************************************************)
Absent == [t |-> "absent", i |-> 0, s |-> ""]
NoneV == [t |-> "none", i |-> 0, s |-> ""]
IntV(n) == [t |-> "int", i |-> n, s |-> ""]
StrV(x) == [t |-> "str", i |-> 0, s |-> x]
BoolV(b) == [t |-> "bool", i |-> IF b THEN 1 ELSE 0, s |-> ""]

\* type(v).__name__, as Python's error messages print it
TypeName(v) ==
  CASE v.t = "none" -> "NoneType"
    [] OTHER -> v.t

\* bool(v): Python's truth value, as `if x:` and `if d.get(k):` test it
Truthy(v) ==
  CASE v.t = "str" -> v.s # ""
    [] v.t \in {"int", "bool"} -> v.i # 0
    [] OTHER -> FALSE

\* format(v) inside an f-string, which is str(v)
Format(v) ==
  CASE v.t = "str" -> v.s
    [] v.t = "int" -> ToString(v.i)
    [] v.t = "bool" -> IF v.i = 1 THEN "True" ELSE "False"
    [] OTHER -> "None"

\* The outcome of evaluating an expression: a value, or a raised Exception
\* whose str() is err.
Ok(v) == [ok |-> TRUE, v |-> v, err |-> ""]
Raise(msg) == [ok |-> FALSE, v |-> Absent, err |-> msg]

\* d.get(k) in the place of d[k]: None stands in for a missing value
GetItem_placeholder(d, k) ==
  IF d[k].t = "absent" THEN Ok(NoneV) ELSE Ok(d[k])

\* d[k] on a dict: KeyError(k), whose str() is repr(k)
GetItem(d, k) ==
  IF d[k].t = "absent" THEN Raise("'" \o k \o "'") ELSE Ok(d[k])

\* d.get(k): None when the key is absent
Get_none(d, k, default) ==
  IF d[k].t = "absent" THEN NoneV ELSE d[k]
\* d.get(k, default)
Get(d, k, default) ==
  IF d[k].t = "absent" THEN default ELSE d[k]

\* min(a, b) for b an int: evaluates b < a and returns a unless b is smaller
PyMin(a, b) ==
  IF a.t \in {"int", "bool"}
  THEN Ok(IF b.i < a.i THEN b ELSE a)
  ELSE Raise("'<' not supported between instances of 'int' and '"
             \o TypeName(a) \o "'")

\* str.lower() on ASCII text
LowerChar(c) ==
  CASE c = "A" -> "a" [] c = "B" -> "b" [] c = "C" -> "c" [] c = "D" -> "d"
    [] c = "E" -> "e" [] c = "F" -> "f" [] c = "G" -> "g" [] c = "H" -> "h"
    [] c = "I" -> "i" [] c = "J" -> "j" [] c = "K" -> "k" [] c = "L" -> "l"
    [] c = "M" -> "m" [] c = "N" -> "n" [] c = "O" -> "o" [] c = "P" -> "p"
    [] c = "Q" -> "q" [] c = "R" -> "r" [] c = "S" -> "s" [] c = "T" -> "t"
    [] c = "U" -> "u" [] c = "V" -> "v" [] c = "W" -> "w" [] c = "X" -> "x"
    [] c = "Y" -> "y" [] c = "Z" -> "z" [] OTHER -> c

RECURSIVE Lower(_)
Lower(s) ==
  IF s = "" THEN "" ELSE LowerChar(SubSeq(s, 1, 1)) \o Lower(SubSeq(s, 2, Len(s)))

\* a lower() that leaves the letters as they are
LowerOf_as_given(v) ==
  IF v.t = "str"
  THEN Ok(v)
  ELSE Raise("'" \o TypeName(v) \o "' object has no attribute 'lower'")
\* v.lower(): only str has the method
LowerOf(v) ==
  IF v.t = "str"
  THEN Ok(StrV(Lower(v.s)))
  ELSE Raise("'" \o TypeName(v) \o "' object has no attribute 'lower'")

\* text.startswith(prefix) and the substring test `sub in text`
StartsWith(text, prefix) ==
  Len(text) >= Len(prefix) /\ SubSeq(text, 1, Len(prefix)) = prefix

EndsWith(text, suffix) ==
  Len(text) >= Len(suffix)
  /\ SubSeq(text, Len(text) - Len(suffix) + 1, Len(text)) = suffix

Contains(text, sub) ==
  \E k \in 1..(Len(text) - Len(sub) + 1) : SubSeq(text, k, k + Len(sub) - 1) = sub

(***************************************************************************)
(* JSON values, as response.json() returns them: dict, list, str, int,     *)
(* None.  items holds a dict's (key, value) pairs in order, or a list's    *)
(* elements (with k = "").                                                 *)
(***************************************************************************)
JNull == [kind |-> "null", n |-> 0, s |-> "", items |-> <<>>]
JNum(n) == [kind |-> "number", n |-> n, s |-> "", items |-> <<>>]
JStr(x) == [kind |-> "string", n |-> 0, s |-> x, items |-> <<>>]
JArr(elems) ==
  [kind |-> "array", n |-> 0, s |-> "",
   items |-> [j \in 1..Len(elems) |-> [k |-> "", v |-> elems[j]]]]
JObj(members) == [kind |-> "object", n |-> 0, s |-> "", items |-> members]
\* what stands for the body when it is not JSON text
JInvalid == [kind |-> "invalid", n |-> 0, s |-> "", items |-> <<>>]

\* ", ".join(parts)
RECURSIVE Join(_, _)
Join(sep, parts) ==
  IF parts = <<>> THEN ""
  ELSE IF Len(parts) = 1 THEN parts[1]
  ELSE parts[1] \o sep \o Join(sep, Tail(parts))

\* repr(j): how Python prints a value inside str() of a container
RECURSIVE PyRepr(_)
PyRepr(j) ==
  CASE j.kind = "null" -> "None"
    [] j.kind = "number" -> ToString(j.n)
    [] j.kind = "string" -> "'" \o j.s \o "'"
    [] j.kind = "array" ->
         "[" \o Join(", ", [x \in 1..Len(j.items) |-> PyRepr(j.items[x].v)]) \o "]"
    [] OTHER ->
         "{" \o Join(", ", [x \in 1..Len(j.items) |->
                   "'" \o j.items[x].k \o "': " \o PyRepr(j.items[x].v)]) \o "}"

\* str(j): a str is itself, every other value is its repr
PyStr(j) == IF j.kind = "string" THEN j.s ELSE PyRepr(j)

\* The JSON text the upstream service sends for a value (json.dumps)
RECURSIVE JsonDumps(_)
JsonDumps(j) ==
  CASE j.kind = "null" -> "null"
    [] j.kind = "number" -> ToString(j.n)
    [] j.kind = "string" -> "\"" \o j.s \o "\""
    [] j.kind = "array" ->
         "[" \o Join(", ", [x \in 1..Len(j.items) |-> JsonDumps(j.items[x].v)]) \o "]"
    [] OTHER ->
         "{" \o Join(", ", [x \in 1..Len(j.items) |->
                   "\"" \o j.items[x].k \o "\": " \o JsonDumps(j.items[x].v)]) \o "}"

\* dict access on a JSON object
HasKey(j, key) == \E x \in 1..Len(j.items) : j.items[x].k = key
Lookup(j, key) == j.items[CHOOSE x \in 1..Len(j.items) : j.items[x].k = key].v
Keys(j) == [x \in 1..Len(j.items) |-> j.items[x].k]

JTypeName(j) ==
  CASE j.kind = "null" -> "NoneType"
    [] j.kind = "number" -> "int"
    [] j.kind = "string" -> "str"
    [] j.kind = "array" -> "list"
    [] OTHER -> "dict"

\* `key not in data`: a key test on a dict, an element test on a list, a
\* substring test on a str, a TypeError on None and on an int
NotIn(key, data) ==
  CASE data.kind = "object" -> Ok(~HasKey(data, key))
    [] data.kind = "array" ->
         Ok(~\E x \in 1..Len(data.items) : data.items[x].v = JStr(key))
    [] data.kind = "string" -> Ok(~Contains(data.s, key))
    [] OTHER ->
         Raise("argument of type '" \o JTypeName(data) \o "' is not iterable")

\* data[key] for a str key
Subscript(data, key) ==
  CASE data.kind = "object" ->
         IF HasKey(data, key) THEN Ok(Lookup(data, key))
         ELSE Raise("'" \o key \o "'")
    [] data.kind = "array" ->
         Raise("list indices must be integers or slices, not str")
    [] data.kind = "string" -> Raise("string indices must be integers, not 'str'")
    [] OTHER -> Raise("'" \o JTypeName(data) \o "' object is not subscriptable")

\* data.keys()
KeysOf(data) ==
  IF data.kind = "object" THEN Ok(Keys(data))
  ELSE Raise("'" \o JTypeName(data) \o "' object has no attribute 'keys'")

(***************************************************************************)
(* The values of the protocol library and of the HTTP library              *)
(***************************************************************************)
\* TextContent(type="text", text=x): the model validates that text is a str
TextContent(x) ==
  IF x.kind = "string"
  THEN Ok([type |-> "text", text |-> x.s])
  ELSE Raise("1 validation error for TextContent\ntext\n  Input should be a valid string")

ArgKeys ==
  {"query", "paper_id", "fields", "offset", "limit", "openAccessPdf",
   "publicationTypes", "minCitationCount", "publicationDateOrYear", "year",
   "venue", "fieldsOfStudy", "format", "extra"}

HeaderKeys == {"Accept", "x-api-key"}

NoArgs == [k \in ArgKeys |-> Absent]
NoHeaders == [k \in HeaderKeys |-> Absent]

\* d[k] = v on a dict
Put(d, k, v) == [d EXCEPT ![k] = v]

\* a request that carries the key in the URL as well
Request_keyed(url, params, headers, timeout) ==
  [url |-> IF headers["x-api-key"].t = "str"
           THEN url \o "?api_key=" \o headers["x-api-key"].s
           ELSE url,
   params |-> params, headers |-> headers, timeout |-> timeout]

\* requests.get(url, params=params, headers=headers, timeout=timeout)
Request(url, params, headers, timeout) ==
  [url |-> url, params |-> params, headers |-> headers, timeout |-> timeout]

NoRequest == Request("", NoArgs, NoHeaders, 0)

\* What the request comes back with: a response (status_code, text, and the
\* value json() decodes, JInvalid when text is not JSON), or an exception.
Response(status, text, json) ==
  [kind |-> "response", status_code |-> status, text |-> text, json |-> json,
   exc |-> ""]
RequestException(msg) ==
  [kind |-> "exception", status_code |-> 0, text |-> "", json |-> JInvalid,
   exc |-> msg]
NoResponse ==
  [kind |-> "none", status_code |-> 0, text |-> "", json |-> JInvalid, exc |-> ""]

\* response.json()
Json(response) ==
  IF response.json.kind = "invalid"
  THEN Raise("Expecting value: line 1 column 1 (char 0)")
  ELSE Ok(response.json)

(***************************************************************************)
(* The adapter                                                             *)
(***************************************************************************)
VARIABLES
  api_key,    \* self.api_key: NoneV or a str
  base_url,   \* self.base_url
  pc,         \* where the call in progress stands
  name,       \* the tool name the call was made with
  handler,    \* the handler the call runs
  arguments,  \* its arguments mapping
  request,    \* the request it has assembled
  wire,       \* the requests it has issued, in order
  response,   \* what its request came back with
  result,     \* the list it returned
  raised,     \* the exception that left it: NoneV, or its message
  tool_lists,      \* the lists handle_list_tools has returned, in order
  resource_lists,  \* the lists handle_list_resources has returned, in order
  resource_read,   \* the last handle_read_resource: uri, returned, raised
  command,    \* the `tools` command of the command line in progress
  stdout,     \* the lines the command has printed
  exit_code,  \* its exit status, NoneV while it runs
  listing,    \* what `tools list` has rendered, tool by tool
  slots,      \* the calls that run concurrently on the adapter, slot by slot
  issued,  \* the requests they have issued, in order, each with its slot
  served      \* what `serve` has constructed and started

vars ==
  <<api_key, base_url, pc, name, handler, arguments, request, wire, response,
    result, raised, tool_lists, resource_lists, resource_read, command, stdout,
    exit_code, listing, slots, issued, served>>

\* what the discovery operations leave behind, what the command line does,
\* and the concurrent calls and the server process
discovery == <<tool_lists, resource_lists, resource_read>>
console == <<command, stdout, exit_code, listing>>
apart == <<slots, issued, served>>

BaseUrl == "https://api.semanticscholar.org/graph/v1"

search_paper_default_fields == "paperId,title,abstract,authors,year,citationCount"
get_paper_default_fields ==
  "paperId,title,abstract,authors,year,citationCount,referenceCount,fieldsOfStudy,publicationTypes,publicationDate,journal,openAccessPdf"
get_authors_default_fields == "authorId,name,affiliations,citationCount,hIndex"

SearchLimitCap == 100
AuthorsLimitCap == 1000
SearchLimitDefault == 10
AuthorsLimitDefault == 100
RequestTimeout == 30

\* headers that test `self.api_key is not None` instead of its truth value
_get_headers_not_none(key) ==
  LET headers == Put(NoHeaders, "Accept", StrV("application/json"))
  IN IF key.t # "none" THEN Put(headers, "x-api-key", key) ELSE headers

\* _get_headers(self)
_get_headers(key) ==
  LET headers == Put(NoHeaders, "Accept", StrV("application/json"))
  IN IF Truthy(key) THEN Put(headers, "x-api-key", key) ELSE headers

\* A handler returns the one TextContent it has built, if it could build it
Return1(content) ==
  IF content.ok THEN Ok(<<content.v>>) ELSE Raise(content.err)

\* f"Error: API returned status {response.status_code}: {response.text}"
ApiError(resp) ==
  "Error: API returned status " \o ToString(resp.status_code) \o ": "
  \o resp.text

\* for queryParams in [...]: if queryParams in arguments: params[...] = ...
PassThroughKeys ==
  <<"publicationTypes", "minCitationCount", "publicationDateOrYear", "year",
    "venue", "fieldsOfStudy">>

\* a copy that tests the value instead of the key: if arguments.get(k)
CopyPresent_truthy(params, args, keys) ==
  [k \in DOMAIN params |->
     IF k \in {keys[i] : i \in DOMAIN keys} /\ Truthy(args[k])
     THEN args[k] ELSE params[k]]

RECURSIVE CopyPresent(_, _, _)
CopyPresent(params, args, keys) ==
  IF keys = <<>> THEN params
  ELSE CopyPresent(IF args[Head(keys)].t # "absent"
                   THEN Put(params, Head(keys), args[Head(keys)])
                   ELSE params,
                   args, Tail(keys))

\* an openAccessPdf forwarded like the pass-through keys, with its own value
OpenAccessPdf_forwarded(params, args) ==
  IF args["openAccessPdf"].t # "absent"
  THEN Put(params, "openAccessPdf", args["openAccessPdf"])
  ELSE params

\* if arguments.get("openAccessPdf"): params["openAccessPdf"] = ""
OpenAccessPdf(params, args) ==
  IF Truthy(Get(args, "openAccessPdf", NoneV))
  THEN Put(params, "openAccessPdf", StrV(""))
  ELSE params

\* a limit forwarded as requested, with no min() around it
ClampLimit_unclamped(args, default, cap) ==
  Ok(Get(args, "limit", IntV(default)))

\* min(arguments.get("limit", default), cap)
ClampLimit(args, default, cap) ==
  PyMin(Get(args, "limit", IntV(default)), IntV(cap))

\* _handle_search_paper, up to the request it hands to requests.get
search_paper_request(key, base, args) ==
  LET query == GetItem(args, "query")
      limit == ClampLimit(args, SearchLimitDefault, SearchLimitCap)
  IN IF ~query.ok THEN Raise(query.err)
     ELSE IF ~limit.ok THEN Raise(limit.err)
     ELSE LET p1 == Put(NoArgs, "query", query.v)
              p2 == Put(p1, "fields",
                        Get(args, "fields", StrV(search_paper_default_fields)))
              p3 == Put(p2, "offset", Get(args, "offset", IntV(0)))
              p4 == Put(p3, "limit", limit.v)
              p5 == CopyPresent(p4, args, PassThroughKeys)
              params == OpenAccessPdf(p5, args)
          IN Ok(Request(base \o "/paper/search", params, _get_headers(key),
                        RequestTimeout))

\* a search handler that takes every 2xx status for a success
search_paper_response_2xx(args, resp) ==
  IF resp.kind = "exception" THEN Raise(resp.exc)
  ELSE IF resp.status_code < 200 \/ resp.status_code > 299
  THEN Return1(TextContent(JStr(ApiError(resp))))
  ELSE LET res == Json(resp)
       IN IF ~res.ok THEN Raise(res.err)
          ELSE Return1(TextContent(JStr(PyStr(res.v))))

\* _handle_search_paper, from the response on
search_paper_response(args, resp) ==
  IF resp.kind = "exception" THEN Raise(resp.exc)
  ELSE IF resp.status_code # 200
  THEN Return1(TextContent(JStr(ApiError(resp))))
  ELSE LET res == Json(resp)
       IN IF ~res.ok THEN Raise(res.err)
          ELSE Return1(TextContent(JStr(PyStr(res.v))))

\* _handle_get_paper, up to the request
get_paper_request(key, base, args) ==
  LET paper_id == GetItem(args, "paper_id")
  IN IF ~paper_id.ok THEN Raise(paper_id.err)
     ELSE LET params == Put(NoArgs, "fields",
                            Get(args, "fields", StrV(get_paper_default_fields)))
          IN Ok(Request(base \o "/paper/" \o Format(paper_id.v), params,
                        _get_headers(key), RequestTimeout))

\* a paper handler that returns the body text as received, not str(res)
get_paper_response_raw(args, resp) ==
  IF resp.kind = "exception" THEN Raise(resp.exc)
  ELSE IF resp.status_code = 404
  THEN Return1(TextContent(JStr("Paper not found: " \o Format(args["paper_id"]))))
  ELSE IF resp.status_code # 200
  THEN Return1(TextContent(JStr(ApiError(resp))))
  ELSE LET res == Json(resp)
       IN IF ~res.ok THEN Raise(res.err)
          ELSE Return1(TextContent(JStr(resp.text)))

\* _handle_get_paper, from the response on
get_paper_response(args, resp) ==
  IF resp.kind = "exception" THEN Raise(resp.exc)
  ELSE IF resp.status_code = 404
  THEN Return1(TextContent(JStr("Paper not found: " \o Format(args["paper_id"]))))
  ELSE IF resp.status_code # 200
  THEN Return1(TextContent(JStr(ApiError(resp))))
  ELSE LET res == Json(resp)
       IN IF ~res.ok THEN Raise(res.err)
          ELSE Return1(TextContent(JStr(PyStr(res.v))))

\* _handle_get_authors, up to the request
get_authors_request(key, base, args) ==
  LET paper_id == GetItem(args, "paper_id")
      limit == ClampLimit(args, AuthorsLimitDefault, AuthorsLimitCap)
  IN IF ~paper_id.ok THEN Raise(paper_id.err)
     ELSE IF ~limit.ok THEN Raise(limit.err)
     ELSE LET p1 == Put(NoArgs, "fields",
                        Get(args, "fields", StrV(get_authors_default_fields)))
              p2 == Put(p1, "offset", Get(args, "offset", IntV(0)))
              params == Put(p2, "limit", limit.v)
          IN Ok(Request(base \o "/paper/" \o Format(paper_id.v) \o "/authors",
                        params, _get_headers(key), RequestTimeout))

\* _handle_get_authors, from the response on: text=res, with no str() around
get_authors_response(args, resp) ==
  IF resp.kind = "exception" THEN Raise(resp.exc)
  ELSE IF resp.status_code = 404
  THEN Return1(TextContent(JStr("Paper not found: " \o Format(args["paper_id"]))))
  ELSE IF resp.status_code # 200
  THEN Return1(TextContent(JStr(ApiError(resp))))
  ELSE LET res == Json(resp)
       IN IF ~res.ok THEN Raise(res.err)
          ELSE Return1(TextContent(res.v))

\* an add_abstract that is implemented: the citation, followed by the abstract
add_abstract_joined(citation, abstract, citation_format) ==
  IF PyStr(abstract) = "" THEN PyStr(citation)
  ELSE PyStr(citation) \o "\n" \o PyStr(abstract)
\* add_abstract(citation, abstract, citation_format)
add_abstract(citation, abstract, citation_format) == "TODO"

\* _handle_get_citation, up to the request
get_citation_request(key, base, args) ==
  LET paper_id == GetItem(args, "paper_id")
      citation_format == LowerOf(Get(args, "format", StrV("bibtex")))
  IN IF ~paper_id.ok THEN Raise(paper_id.err)
     ELSE IF ~citation_format.ok THEN Raise(citation_format.err)
     ELSE Ok(Request(base \o "/paper/" \o Format(paper_id.v),
                     Put(NoArgs, "fields", StrV("citationStyles, abstract")),
                     _get_headers(key), RequestTimeout))

\* a get_citation that answers with the placeholder whether or not the paper
\* has the format
citation_styles_present_any(data, styles, citation_format) ==
  Return1(TextContent(JStr("TODO")))
\* _handle_get_citation, once the body is known to hold citationStyles
citation_styles_present(data, styles, citation_format) ==
  LET unavailable == NotIn(citation_format, styles)
  IN IF ~unavailable.ok THEN Raise(unavailable.err)
     ELSE IF unavailable.v
     THEN LET keys == KeysOf(styles)
          IN IF ~keys.ok THEN Raise(keys.err)
             ELSE Return1(TextContent(JStr(
                    "Citation format '" \o citation_format
                    \o "' not available. Available formats for this paper: "
                    \o Join(", ", keys.v))))
     ELSE LET citation == Subscript(styles, citation_format)
          IN IF ~citation.ok THEN Raise(citation.err)
             ELSE Return1(TextContent(JStr(add_abstract(
                    citation.v,
                    IF HasKey(data, "abstract")
                    THEN Lookup(data, "abstract") ELSE JStr(""),
                    citation_format))))

\* a get_citation that reads data["citationStyles"] without testing for it
citation_of_unchecked(data, citation_format) ==
  LET styles == Subscript(data, "citationStyles")
  IN IF ~styles.ok THEN Raise(styles.err)
     ELSE citation_styles_present(data, styles.v, citation_format)

\* _handle_get_citation, from the 200 body on
citation_of(data, citation_format) ==
  LET missing == NotIn("citationStyles", data)
  IN IF ~missing.ok THEN Raise(missing.err)
     ELSE IF missing.v
     THEN Return1(TextContent(JStr("No citation styles available for this paper.")))
     ELSE LET styles == Subscript(data, "citationStyles")
          IN IF ~styles.ok THEN Raise(styles.err)
             ELSE citation_styles_present(data, styles.v, citation_format)

\* a citation handler without the 404 branch
get_citation_response_no_404(args, resp) ==
  IF resp.kind = "exception" THEN Raise(resp.exc)
  ELSE IF resp.status_code # 200
  THEN Return1(TextContent(JStr(ApiError(resp))))
  ELSE LET data == Json(resp)
       IN IF ~data.ok THEN Raise(data.err)
          ELSE citation_of(data.v,
                           LowerOf(Get(args, "format", StrV("bibtex"))).v.s)

\* _handle_get_citation, from the response on
get_citation_response(args, resp) ==
  IF resp.kind = "exception" THEN Raise(resp.exc)
  ELSE IF resp.status_code = 404
  THEN Return1(TextContent(JStr("Paper not found: " \o Format(args["paper_id"]))))
  ELSE IF resp.status_code # 200
  THEN Return1(TextContent(JStr(ApiError(resp))))
  ELSE LET data == Json(resp)
       IN IF ~data.ok THEN Raise(data.err)
          ELSE citation_of(data.v,
                           LowerOf(Get(args, "format", StrV("bibtex"))).v.s)

\* a handler whose try block has no except clause: the exception leaves it
Except_propagate(label, outcome) ==
  IF outcome.ok
  THEN [returned |-> outcome.v, raised |-> NoneV]
  ELSE [returned |-> <<>>, raised |-> StrV(outcome.err)]

\* try: ... except Exception as e: return [TextContent(text=f"{label}{str(e)}")]
Except(label, outcome) ==
  IF outcome.ok
  THEN [returned |-> outcome.v, raised |-> NoneV]
  ELSE [returned |-> <<TextContent(JStr(label \o outcome.err)).v>>,
        raised |-> NoneV]

SearchLabel == "Error searching papers: "
PaperLabel == "Error getting paper details: "
\* the authors handler reporting with the label of the paper handler
AuthorsLabel_copied == "Error getting paper details: "
AuthorsLabel == "Error getting authors: "
CitationLabel == "Error generating citation: "

(***************************************************************************)
(* The discovery operations: resources and tool descriptors                 *)
(***************************************************************************)
\* _get_paper_fields_documentation(); the grave accents of the markdown are
\* written as apostrophes, for want of a grave accent in strings
_get_paper_fields_documentation ==
  "# Paper Fields Reference\n" \o
  "\n" \o
  "## Basic Fields\n" \o
  "- 'paperId' - Unique paper identifier\n" \o
  "- 'title' - Paper title\n" \o
  "- 'abstract' - Paper abstract\n" \o
  "- 'year' - Publication year\n" \o
  "- 'publicationDate' - Full publication date (YYYY-MM-DD)\n" \o
  "\n" \o
  "## Author Information\n" \o
  "- 'authors' - List of authors (returns authorId and name by default)\n" \o
  "- 'authors.authorId' - Author's unique identifier\n" \o
  "- 'authors.name' - Author's name\n" \o
  "- 'authors.affiliations' - Author's institutional affiliations\n" \o
  "- 'authors.citationCount' - Author's total citation count\n" \o
  "- 'authors.hIndex' - Author's h-index\n" \o
  "\n" \o
  "## Citation and Reference Data\n" \o
  "- 'citationCount' - Number of times this paper has been cited\n" \o
  "- 'referenceCount' - Number of references in this paper\n" \o
  "- 'citations' - List of papers that cite this paper\n" \o
  "- 'references' - List of papers referenced by this paper\n" \o
  "\n" \o
  "## Publication Details\n" \o
  "- 'journal' - Journal information (name, volume, pages, etc.)\n" \o
  "- 'venue' - Publication venue\n" \o
  "- 'publicationTypes' - Types of publication (e.g., JournalArticle, Conference)\n" \o
  "- 'fieldsOfStudy' - Academic fields (e.g., Computer Science, Medicine)\n" \o
  "- 's2FieldsOfStudy' - Semantic Scholar's field classifications\n" \o
  "\n" \o
  "## Additional Metadata\n" \o
  "- 'doi' - Digital Object Identifier\n" \o
  "- 'arxivId' - ArXiv identifier\n" \o
  "- 'url' - Paper URL\n" \o
  "- 'openAccessPdf' - Open access PDF information\n" \o
  "- 'embedding' - Paper embedding vectors (for similarity analysis)\n"

\* _get_author_fields_documentation()
_get_author_fields_documentation ==
  "# Author Fields Reference\n" \o
  "\n" \o
  "## Available Fields\n" \o
  "- 'authorId' - Unique author identifier\n" \o
  "- 'name' - Author's name\n" \o
  "- 'affiliations' - Institutional affiliations (array)\n" \o
  "- 'citationCount' - Total citation count across all papers\n" \o
  "- 'hIndex' - h-index metric\n" \o
  "- 'paperCount' - Number of papers published\n" \o
  "- 'url' - Author's Semantic Scholar profile URL\n"


\* Tool(name=..., inputSchema={"properties": ..., "required": ...}): the
\* property names in their order, the required names, and the declared
\* default of each property (Absent where none is declared)
Tool(tool_name, properties, required, defaults) ==
  [name |-> tool_name, properties |-> properties, required |-> required,
   defaults |-> defaults]

SearchPaperTool ==
  Tool("search_paper",
       <<"query", "fields", "publicationTypes", "openAccessPdf",
         "minCitationCount", "publicationDateOrYear", "year", "venue",
         "fieldsOfStudy", "offset", "limit">>,
       <<"query">>,
       [NoArgs EXCEPT !["fields"] = StrV(search_paper_default_fields),
                      !["openAccessPdf"] = BoolV(FALSE),
                      !["minCitationCount"] = IntV(0),
                      !["offset"] = IntV(0),
                      !["limit"] = IntV(10)])

GetPaperTool ==
  Tool("get_paper", <<"paper_id", "fields">>, <<"paper_id">>,
       [NoArgs EXCEPT !["fields"] = StrV(get_paper_default_fields)])

GetAuthorsTool ==
  Tool("get_authors", <<"paper_id", "fields", "offset", "limit">>, <<"paper_id">>,
       [NoArgs EXCEPT !["fields"] = StrV("authorId,name,affiliations,citationCount,hIndex"),
                      !["offset"] = IntV(0),
                      !["limit"] = IntV(100)])

GetCitationTool ==
  Tool("get_citation", <<"paper_id", "format">>, <<"paper_id">>,
       [NoArgs EXCEPT !["format"] = StrV("bibtex")])

\* a listing out of a registry that every listing adds the tools to
ToolList_registry ==
  IF tool_lists = <<>>
  THEN <<SearchPaperTool, GetPaperTool, GetAuthorsTool, GetCitationTool>>
  ELSE tool_lists[Len(tool_lists)]
       \o <<SearchPaperTool, GetPaperTool, GetAuthorsTool, GetCitationTool>>

\* what handle_list_tools returns
ToolList == <<SearchPaperTool, GetPaperTool, GetAuthorsTool, GetCitationTool>>

\* Resource(uri=..., name=..., description=..., mimeType=...)
Resource(uri, resource_name, description, mimeType) ==
  [uri |-> uri, name |-> resource_name, description |-> description,
   mimeType |-> mimeType]

\* what handle_list_resources returns
ResourceList ==
  <<Resource("semantic-scholar://fields/paper", "Paper Fields Reference",
             "Complete list of available fields for paper-related tools",
             "text/markdown"),
    Resource("semantic-scholar://fields/author", "Author Fields Reference",
             "Complete list of available fields for author-related tools",
             "text/markdown")>>
\* a read_resource that falls back on the paper document
read_resource_lenient(uri) ==
  IF uri = "semantic-scholar://fields/author"
  THEN Ok(StrV(_get_author_fields_documentation))
  ELSE Ok(StrV(_get_paper_fields_documentation))

\* the body of handle_read_resource(uri)
read_resource(uri) ==
  IF uri = "semantic-scholar://fields/paper"
  THEN Ok(StrV(_get_paper_fields_documentation))
  ELSE IF uri = "semantic-scholar://fields/author"
  THEN Ok(StrV(_get_author_fields_documentation))
  ELSE Raise("Unknown resource: " \o uri)
(***************************************************************************)
(* The inputs: constructor arguments, tool names, arguments mappings and   *)
(* what the upstream service may answer                                    *)
(***************************************************************************)
\* how many optional arguments one call carries at most
MaxOptionalArgs == 1

\* how many calls run concurrently
MaxCalls == 2
\* how many listings of each kind one run holds
MaxListings == 2
\* the citation formats the get_citation descriptor names
RecognizedFormats == {"bibtex", "apa", "mla", "chicago"}
ApiKeys == {NoneV, StrV(""), StrV("test-key")}

ToolNames == {"search_paper", "get_paper", "get_authors", "get_citation"}
CallNames == ToolNames \cup {"list_papers"}

RequiredKey(n) == IF n = "search_paper" THEN "query" ELSE "paper_id"

OptionalKeys(n) ==
  CASE n = "search_paper" ->
         {"fields", "offset", "limit", "openAccessPdf", "publicationTypes",
          "minCitationCount", "publicationDateOrYear", "year", "venue",
          "fieldsOfStudy", "extra"}
    [] n = "get_paper" -> {"fields", "extra"}
    [] n = "get_authors" -> {"fields", "offset", "limit", "extra"}
    [] n = "get_citation" -> {"format", "extra"}
    [] OTHER -> {"extra"}

ValuesOf(key) ==
  CASE key = "query" -> {StrV("machine learning"), StrV("")}
    [] key = "paper_id" -> {StrV("abc"), StrV("")}
    [] key = "fields" -> {StrV("title,abstract,authors")}
    [] key = "offset" -> {IntV(0), IntV(20)}
    [] key = "limit" ->
         {IntV(-1), IntV(0), IntV(50), IntV(100), IntV(101), IntV(200),
          IntV(1000), IntV(1001), IntV(2000), StrV("ten")}
    [] key = "openAccessPdf" -> {BoolV(TRUE), BoolV(FALSE)}
    [] key = "minCitationCount" -> {IntV(0), IntV(10)}
    [] key = "year" -> {StrV("2020-2023"), StrV("")}
    [] key = "publicationTypes" -> {StrV("Review,JournalArticle")}
    [] key = "publicationDateOrYear" -> {StrV("2019-03")}
    [] key = "venue" -> {StrV("Nature,Radiology")}
    [] key = "fieldsOfStudy" -> {StrV("Physics,Mathematics")}
    [] key = "format" ->
         {StrV("bibtex"), StrV("BibTeX"), StrV("apa"), StrV("APA"), StrV("xml"),
          IntV(1)}
    [] OTHER -> {StrV("x")}

\* the mappings that hold at most k of the keys
RECURSIVE ArgMaps(_, _)
ArgMaps(keys, k) ==
  IF k = 0 \/ keys = {} THEN {NoArgs}
  ELSE LET key == CHOOSE x \in keys : TRUE
       IN ArgMaps(keys \ {key}, k)
          \cup {Put(m, key, v) : m \in ArgMaps(keys \ {key}, k - 1),
                                 v \in ValuesOf(key)}

\* the arguments mappings a call of tool n is made with: the required key
\* present or absent, and at most MaxOptionalArgs optional ones
ArgsFor(n) ==
  LET optional == ArgMaps(OptionalKeys(n), MaxOptionalArgs)
  IN optional
     \cup {Put(m, RequiredKey(n), v) : m \in optional, v \in ValuesOf(RequiredKey(n))}

\* the arguments mappings with at most the required key
RequiredArgs(n) ==
  {NoArgs} \cup {Put(NoArgs, RequiredKey(n), v) : v \in ValuesOf(RequiredKey(n))}

\* the URIs a resource is read with
Uris ==
  {"semantic-scholar://fields/paper", "semantic-scholar://fields/author",
   "semantic-scholar://fields/venue", ""}
Member(k, v) == [k |-> k, v |-> v]

\* JSON bodies the upstream service may send
SearchBody ==
  JObj(<<Member("total", JNum(1)),
         Member("data", JArr(<<JObj(<<Member("paperId", JStr("abc")),
                                      Member("title", JStr("T"))>>)>>))>>)
AuthorsBody == JObj(<<Member("data", JArr(<<>>))>>)
CitationBody ==
  JObj(<<Member("citationStyles", JObj(<<Member("bibtex", JStr("@article{...}"))>>)),
         Member("abstract", JStr("A"))>>)
TwoStylesBody ==
  JObj(<<Member("citationStyles", JObj(<<Member("bibtex", JStr("@a")),
                                         Member("apa", JStr("B"))>>))>>)
NoStylesBody ==
  JObj(<<Member("paperId", JStr("test")), Member("abstract", JStr("test"))>>)
NullStylesBody == JObj(<<Member("citationStyles", JNull)>>)
ApaStylesBody == JObj(<<Member("citationStyles", JObj(<<Member("apa", JStr("B"))>>))>>)

JsonBodies ==
  {SearchBody, AuthorsBody, CitationBody, TwoStylesBody, NoStylesBody,
   NullStylesBody, ApaStylesBody, JNull, JStr("abc"), JArr(<<JStr("citationStyles")>>)}

\* bodies that are not JSON text
TextBodies == {"Internal Server Error", ""}

\* the bodies that come with an error status
ErrorJsonBodies == {JObj(<<Member("error", JStr("Paper not found"))>>)}

ErrorStatuses == {204, 404, 429, 500}

ExceptionMessages == {"Request timed out", "Network error", ""}

Outcomes ==
  {Response(200, JsonDumps(b), b) : b \in JsonBodies}
  \cup {Response(200, t, JInvalid) : t \in TextBodies}
  \cup {Response(c, JsonDumps(b), b) : c \in ErrorStatuses, b \in ErrorJsonBodies}
  \cup {Response(c, t, JInvalid) : c \in ErrorStatuses, t \in TextBodies}
  \cup {RequestException(m) : m \in ExceptionMessages}

\* the parameters of the command functions
OptionKeys ==
  {"query", "paper_id", "fields", "limit", "offset", "year", "fields_of_study",
   "open_access_pdf", "citation_format", "output_format", "verbose",
   "transport", "api_key", "debug"}

NoOptions == [k \in OptionKeys |-> Absent]

\* a slot without a call; a process in which serve has done nothing yet
NoCall ==
  [pc |-> "idle", name |-> "", arguments |-> NoArgs, request |-> NoRequest,
   response |-> NoResponse, result |-> <<>>, raised |-> NoneV]
NoServe == [adapters |-> <<>>, listeners |-> <<>>]
\* no resource has been read; no command has been given
NoRead == [uri |-> "", returned |-> NoneV, raised |-> NoneV]
NoCommand == [name |-> "", options |-> NoOptions]
(***************************************************************************)
(* The state machine: one call at a time, from the dispatch to the return  *)
(***************************************************************************)
\* SemanticScholarServer.__init__(api_key): no request is issued
Init ==
  /\ api_key \in ApiKeys
  /\ base_url = BaseUrl
  /\ pc = "idle"
  /\ name = ""
  /\ handler = "none"
  /\ arguments = NoArgs
  /\ request = NoRequest
  /\ wire = <<>>
  /\ response = NoResponse
  /\ result = <<>>
  /\ raised = NoneV
  /\ tool_lists = <<>>
  /\ resource_lists = <<>>
  /\ resource_read = NoRead
  /\ command = NoCommand
  /\ stdout = <<>>
  /\ exit_code = NoneV
  /\ listing = <<>>
  /\ slots = [s \in 1..MaxCalls |-> NoCall]
  /\ issued = <<>>
  /\ served = NoServe

\* a dispatch whose last branch is an else: every other name runs get_citation
Route_else(n) ==
  CASE n = "search_paper" -> "_handle_search_paper"
    [] n = "get_paper" -> "_handle_get_paper"
    [] n = "get_authors" -> "_handle_get_authors"
    [] OTHER -> "_handle_get_citation"
\* handle_call_tool: the handler a tool name is routed to
Route(n) ==
  CASE n = "search_paper" -> "_handle_search_paper"
    [] n = "get_paper" -> "_handle_get_paper"
    [] n = "get_authors" -> "_handle_get_authors"
    [] n = "get_citation" -> "_handle_get_citation"
    [] OTHER -> "none"

\* handle_call_tool(name, arguments)
handle_call_tool(n, args) ==
  /\ pc = "idle"
  /\ name' = n
  /\ arguments' = args
  /\ handler' = Route(n)
  /\ IF Route(n) = "none"
     THEN /\ raised' = StrV("Unknown tool: " \o n)
          /\ pc' = "done"
     ELSE /\ raised' = raised
          /\ pc' = "called"
  /\ UNCHANGED <<api_key, base_url, request, wire, response, result>>
  /\ UNCHANGED <<discovery, console>>
  /\ UNCHANGED apart

\* the try block of a handler up to its request: either the request is
\* assembled, or the except clause returns
Build(label, built) ==
  /\ pc = "called"
  /\ IF built.ok
     THEN /\ request' = built.v
          /\ pc' = "built"
          /\ UNCHANGED <<result, raised>>
     ELSE /\ result' = Except(label, built).returned
          /\ raised' = Except(label, built).raised
          /\ pc' = "done"
          /\ UNCHANGED request
  /\ UNCHANGED <<api_key, base_url, name, handler, arguments, wire, response>>
  /\ UNCHANGED <<discovery, console>>
  /\ UNCHANGED apart

\* a handler that, when its request has timed out, goes back to waiting for
\* the response instead of returning
Map_pending(label, mapped) ==
  /\ pc = "responded"
  /\ IF response = RequestException("Request timed out")
     THEN /\ pc' = "awaiting"
          /\ response' = NoResponse
          /\ UNCHANGED <<result, raised>>
     ELSE /\ result' = Except(label, mapped).returned
          /\ raised' = Except(label, mapped).raised
          /\ pc' = "done"
          /\ UNCHANGED response
  /\ UNCHANGED <<api_key, base_url, name, handler, arguments, request, wire>>
  /\ UNCHANGED <<discovery, console>>
  /\ UNCHANGED apart
\* the rest of the try block, and the except clause
Map(label, mapped) ==
  /\ pc = "responded"
  /\ result' = Except(label, mapped).returned
  /\ raised' = Except(label, mapped).raised
  /\ pc' = "done"
  /\ UNCHANGED <<api_key, base_url, name, handler, arguments, request, wire,
                 response>>
  /\ UNCHANGED <<discovery, console>>
  /\ UNCHANGED apart

_handle_search_paper_build ==
  /\ handler = "_handle_search_paper"
  /\ Build(SearchLabel, search_paper_request(api_key, base_url, arguments))

_handle_search_paper_map ==
  /\ handler = "_handle_search_paper"
  /\ Map(SearchLabel, search_paper_response(arguments, response))

_handle_get_paper_build ==
  /\ handler = "_handle_get_paper"
  /\ Build(PaperLabel, get_paper_request(api_key, base_url, arguments))

_handle_get_paper_map ==
  /\ handler = "_handle_get_paper"
  /\ Map(PaperLabel, get_paper_response(arguments, response))

_handle_get_authors_build ==
  /\ handler = "_handle_get_authors"
  /\ Build(AuthorsLabel, get_authors_request(api_key, base_url, arguments))

_handle_get_authors_map ==
  /\ handler = "_handle_get_authors"
  /\ Map(AuthorsLabel, get_authors_response(arguments, response))

_handle_get_citation_build ==
  /\ handler = "_handle_get_citation"
  /\ Build(CitationLabel, get_citation_request(api_key, base_url, arguments))

_handle_get_citation_map ==
  /\ handler = "_handle_get_citation"
  /\ Map(CitationLabel, get_citation_response(arguments, response))

\* a handler that sends its request a second time
Issue_twice ==
  /\ pc = "built"
  /\ wire' = wire \o <<request, request>>
  /\ pc' = "awaiting"
  /\ UNCHANGED <<api_key, base_url, name, handler, arguments, request, response,
                 result, raised>>
  /\ UNCHANGED <<discovery, console>>
  /\ UNCHANGED apart
\* await asyncio.to_thread(requests.get, url, params=..., headers=..., timeout=30)
Issue ==
  /\ pc = "built"
  /\ wire' = Append(wire, request)
  /\ pc' = "awaiting"
  /\ UNCHANGED <<api_key, base_url, name, handler, arguments, request, response,
                 result, raised>>
  /\ UNCHANGED <<discovery, console>>
  /\ UNCHANGED apart

\* a handler that does not await its request: it has a response to inspect
\* although nothing has been sent
Upstream_unsent(outcome) ==
  /\ pc = "built"
  /\ response' = outcome
  /\ pc' = "responded"
  /\ UNCHANGED <<api_key, base_url, name, handler, arguments, request, wire,
                 result, raised>>
  /\ UNCHANGED <<discovery, console>>
  /\ UNCHANGED apart
\* the upstream service answers, or the request fails or times out
Upstream(outcome) ==
  /\ pc = "awaiting"
  /\ response' = outcome
  /\ pc' = "responded"
  /\ UNCHANGED <<api_key, base_url, name, handler, arguments, request, wire,
                 result, raised>>
  /\ UNCHANGED <<discovery, console>>
  /\ UNCHANGED apart

\* a return that clears the configuration along with the call
Return_cleared ==
  /\ pc = "done"
  /\ pc' = "idle"
  /\ name' = ""
  /\ handler' = "none"
  /\ arguments' = NoArgs
  /\ request' = NoRequest
  /\ wire' = <<>>
  /\ response' = NoResponse
  /\ result' = <<>>
  /\ raised' = NoneV
  /\ api_key' = NoneV
  /\ base_url' = ""
  /\ UNCHANGED <<discovery, console>>
  /\ UNCHANGED apart
\* the caller has the result; the adapter is ready for the next call
Return ==
  /\ pc = "done"
  /\ pc' = "idle"
  /\ name' = ""
  /\ handler' = "none"
  /\ arguments' = NoArgs
  /\ request' = NoRequest
  /\ wire' = <<>>
  /\ response' = NoResponse
  /\ result' = <<>>
  /\ raised' = NoneV
  /\ UNCHANGED <<api_key, base_url>>
  /\ UNCHANGED <<discovery, console>>
  /\ UNCHANGED apart

\* the event loop runs another handler only between calls and while the call
\* in progress awaits its request
Suspended == pc \in {"idle", "awaiting", "responded"}

call == <<pc, name, handler, arguments, request, wire, response, result, raised>>

\* handle_list_tools()
handle_list_tools ==
  /\ Suspended
  /\ Len(tool_lists) < MaxListings
  /\ tool_lists' = Append(tool_lists, ToolList)
  /\ UNCHANGED <<api_key, base_url, call, resource_lists, resource_read, console>>
  /\ UNCHANGED apart

\* handle_list_resources()
handle_list_resources ==
  /\ Suspended
  /\ Len(resource_lists) < MaxListings
  /\ resource_lists' = Append(resource_lists, ResourceList)
  /\ UNCHANGED <<api_key, base_url, call, tool_lists, resource_read, console>>
  /\ UNCHANGED apart
\* handle_read_resource(uri)
handle_read_resource(uri) ==
  /\ Suspended
  /\ resource_read' =
       LET outcome == read_resource(uri)
       IN [uri |-> uri,
           returned |-> IF outcome.ok THEN outcome.v ELSE NoneV,
           raised |-> IF outcome.ok THEN NoneV ELSE StrV(outcome.err)]
  /\ UNCHANGED <<api_key, base_url, call, tool_lists, resource_lists, console>>
  /\ UNCHANGED apart
Next ==
  \/ \E n \in CallNames : \E args \in ArgsFor(n) : handle_call_tool(n, args)
  \/ _handle_search_paper_build
  \/ _handle_search_paper_map
  \/ _handle_get_paper_build
  \/ _handle_get_paper_map
  \/ _handle_get_authors_build
  \/ _handle_get_authors_map
  \/ _handle_get_citation_build
  \/ _handle_get_citation_map
  \/ Issue
  \/ \E outcome \in Outcomes : Upstream(outcome)
  \/ Return

Spec == Init /\ [][Next]_vars

\* the steps of a call in progress: the handler coroutine runs, the worker
\* thread sends the request, and requests.get with timeout=30 returns or raises
Progress ==
  \/ _handle_search_paper_build
  \/ _handle_search_paper_map
  \/ _handle_get_paper_build
  \/ _handle_get_paper_map
  \/ _handle_get_authors_build
  \/ _handle_get_authors_map
  \/ _handle_get_citation_build
  \/ _handle_get_citation_map
  \/ Issue
  \/ \E outcome \in Outcomes : Upstream(outcome)

\* one call after another, made with or without its required argument
NextLive ==
  \/ \E n \in CallNames : \E args \in RequiredArgs(n) : handle_call_tool(n, args)
  \/ Progress
  \/ Return

\* a call in progress is not left waiting for ever: the event loop resumes
\* its handler, and its request ends
SpecLive == Init /\ [][NextLive]_vars /\ WF_vars(Progress)
\* the adapter as the protocol host drives it: listings, reads and calls, the
\* calls with the required argument alone
NextDiscovery ==
  \/ handle_list_tools
  \/ handle_list_resources
  \/ \E uri \in Uris : handle_read_resource(uri)
  \/ \E n \in CallNames : \E args \in RequiredArgs(n) : handle_call_tool(n, args)
  \/ _handle_search_paper_build
  \/ _handle_search_paper_map
  \/ _handle_get_paper_build
  \/ _handle_get_paper_map
  \/ _handle_get_authors_build
  \/ _handle_get_authors_map
  \/ _handle_get_citation_build
  \/ _handle_get_citation_map
  \/ Issue
  \/ \E outcome \in Outcomes : Upstream(outcome)
  \/ Return

SpecDiscovery == Init /\ [][NextDiscovery]_vars
(***************************************************************************)
(* The command line: `tools <command>` constructs an adapter with the API   *)
(* key of the group (api_key of Init), runs one handler and prints          *)
(***************************************************************************)
\* what click hands to each command: defaults filled in, None for an option
\* that was not given
SearchOptions ==
  {[NoOptions EXCEPT !["query"] = StrV("machine learning"),
                     !["fields"] = f, !["limit"] = l, !["offset"] = o,
                     !["year"] = y, !["fields_of_study"] = s,
                     !["open_access_pdf"] = b] :
     f \in {StrV("paperId,title,abstract,authors,year,citationCount"),
            StrV("title,authors")},
     l \in {IntV(10), IntV(200)},
     o \in {IntV(0), IntV(10)},
     y \in {NoneV, StrV("2020-2023"), StrV("")},
     s \in {NoneV, StrV("Computer Science")},
     b \in {BoolV(TRUE), BoolV(FALSE)}}

PaperOptions ==
  {[NoOptions EXCEPT !["paper_id"] = p, !["fields"] = f] :
     p \in {StrV("abc"), StrV("")},
     f \in {StrV(get_paper_default_fields), StrV("title,abstract")}}

AuthorsOptions ==
  {[NoOptions EXCEPT !["paper_id"] = StrV("abc"), !["fields"] = f,
                     !["limit"] = l, !["offset"] = o] :
     f \in {StrV("authorId,name,affiliations,citationCount,hIndex"),
            StrV("name,affiliations")},
     l \in {IntV(100), IntV(10), IntV(2000)},
     o \in {IntV(0), IntV(5)}}

CitationOptions ==
  {[NoOptions EXCEPT !["paper_id"] = StrV("abc"), !["citation_format"] = StrV(c)] :
     c \in RecognizedFormats}

ListOptions ==
  {[NoOptions EXCEPT !["output_format"] = StrV(f), !["verbose"] = BoolV(v)] :
     f \in {"text", "json", "table"}, v \in BOOLEAN}

\* search_paper: the args dictionary of run_search
search_paper_args(options) ==
  LET a1 == [NoArgs EXCEPT !["query"] = options["query"],
                           !["fields"] = options["fields"],
                           !["limit"] = options["limit"],
                           !["offset"] = options["offset"]]
      a2 == IF Truthy(options["year"])
            THEN Put(a1, "year", options["year"]) ELSE a1
      a3 == IF Truthy(options["fields_of_study"])
            THEN Put(a2, "fieldsOfStudy", options["fields_of_study"]) ELSE a2
  IN IF Truthy(options["open_access_pdf"])
     THEN Put(a3, "openAccessPdf", BoolV(TRUE)) ELSE a3

get_paper_args(options) ==
  [NoArgs EXCEPT !["paper_id"] = options["paper_id"],
                 !["fields"] = options["fields"]]

get_authors_args(options) ==
  [NoArgs EXCEPT !["paper_id"] = options["paper_id"],
                 !["fields"] = options["fields"],
                 !["limit"] = options["limit"],
                 !["offset"] = options["offset"]]

get_citation_args(options) ==
  [NoArgs EXCEPT !["paper_id"] = options["paper_id"],
                 !["format"] = options["citation_format"]]

\* a command calls its handler with the arguments it has put together
Command(command_name, options, args) ==
  /\ pc = "idle"
  /\ command = NoCommand
  /\ command' = [name |-> command_name, options |-> options]
  /\ handler' = "_handle_" \o command_name
  /\ arguments' = args
  /\ pc' = "called"
  /\ UNCHANGED <<api_key, base_url, name, request, wire, response, result,
                 raised, discovery, stdout, exit_code, listing>>
  /\ UNCHANGED apart

search_paper(options) ==
  Command("search_paper", options, search_paper_args(options))

get_paper(options) ==
  Command("get_paper", options, get_paper_args(options))

get_authors(options) ==
  Command("get_authors", options, get_authors_args(options))

get_citation(options) ==
  Command("get_citation", options, get_citation_args(options))

\* for result in results: click.echo(result.text)
Echo(results) == [x \in 1..Len(results) |-> results[x].text]

\* a command that reports an error text through its exit status
echo_results_status ==
  /\ pc = "done"
  /\ command.name \in ToolNames
  /\ stdout' = IF raised = NoneV THEN Echo(result) ELSE <<>>
  /\ exit_code' = IF raised = NoneV
                     /\ \A x \in 1..Len(result) :
                          /\ ~StartsWith(result[x].text, "Error")
                          /\ ~StartsWith(result[x].text, "API Error")
                          /\ ~StartsWith(result[x].text, "Paper not found")
                  THEN IntV(0) ELSE IntV(1)
  /\ pc' = "exited"
  /\ UNCHANGED <<api_key, base_url, name, handler, arguments, request, wire,
                 response, result, raised, discovery, command, listing>>
  /\ UNCHANGED apart

\* the handler has returned: its texts are printed, the command returns and
\* the process exits with 0; an exception out of the handler would end it
\* with a traceback and 1
echo_results ==
  /\ pc = "done"
  /\ command.name \in ToolNames
  /\ stdout' = IF raised = NoneV THEN Echo(result) ELSE <<>>
  /\ exit_code' = IF raised = NoneV THEN IntV(0) ELSE IntV(1)
  /\ pc' = "exited"
  /\ UNCHANGED <<api_key, base_url, name, handler, arguments, request, wire,
                 response, result, raised, discovery, command, listing>>
  /\ UNCHANGED apart
\* list_tools: tools_data, the table the command prints from, tool by tool
\* as name, properties in order, required names and declared defaults
tools_data ==
  <<Tool("search_paper",
         <<"query", "fields", "limit", "offset", "year", "fieldsOfStudy",
           "openAccessPdf">>,
         <<"query">>,
         [NoArgs EXCEPT !["fields"] = StrV("paperId,title,abstract,authors,year,citationCount"),
                        !["limit"] = IntV(10),
                        !["offset"] = IntV(0),
                        !["openAccessPdf"] = BoolV(FALSE)]),
    Tool("get_paper", <<"paper_id", "fields">>, <<"paper_id">>,
         [NoArgs EXCEPT !["fields"] =
            StrV("paperId,title,abstract,authors,year,citationCount,"
                 \o "referenceCount,fieldsOfStudy,publicationTypes,"
                 \o "publicationDate,journal,openAccessPdf")]),
    Tool("get_authors", <<"paper_id", "fields", "limit", "offset">>, <<"paper_id">>,
         [NoArgs EXCEPT !["fields"] = StrV("authorId,name,affiliations,citationCount,hIndex"),
                        !["limit"] = IntV(100),
                        !["offset"] = IntV(0)]),
    Tool("get_citation", <<"paper_id", "format">>, <<"paper_id">>,
         [NoArgs EXCEPT !["format"] = StrV("bibtex")])>>

\* what one tool's part of the output shows: the JSON form dumps the whole
\* entry; the table and text forms print the name and the description, and
\* the parameters (required mark and default) only with --verbose
Shown(tool, output_format, verbose) ==
  IF output_format = "json" \/ verbose
  THEN tool
  ELSE Tool(tool.name, <<>>, <<>>, NoArgs)

\* the heading printed before the tools
Heading(output_format) ==
  CASE output_format = "json" -> <<>>
    [] output_format = "table" -> <<"Available MCP Tools">>
    [] OTHER -> <<"Available MCP Tools:">>

\* tools list [--format text|json|table] [--verbose]
list_tools(options) ==
  /\ pc = "idle"
  /\ command = NoCommand
  /\ command' = [name |-> "list", options |-> options]
  /\ stdout' = Heading(options["output_format"].s)
  /\ listing' = [x \in 1..Len(tools_data) |->
                   Shown(tools_data[x], options["output_format"].s,
                         Truthy(options["verbose"]))]
  /\ exit_code' = IntV(0)
  /\ pc' = "exited"
  /\ UNCHANGED <<api_key, base_url, name, handler, arguments, request, wire,
                 response, result, raised, discovery>>
  /\ UNCHANGED apart

NextCli ==
  \/ \E options \in ListOptions : list_tools(options)
  \/ \E options \in SearchOptions : search_paper(options)
  \/ \E options \in PaperOptions : get_paper(options)
  \/ \E options \in AuthorsOptions : get_authors(options)
  \/ \E options \in CitationOptions : get_citation(options)
  \/ _handle_search_paper_build
  \/ _handle_search_paper_map
  \/ _handle_get_paper_build
  \/ _handle_get_paper_map
  \/ _handle_get_authors_build
  \/ _handle_get_authors_map
  \/ _handle_get_citation_build
  \/ _handle_get_citation_map
  \/ Issue
  \/ \E outcome \in Outcomes : Upstream(outcome)
  \/ echo_results

SpecCli == Init /\ [][NextCli]_vars
(***************************************************************************)
(* The serve command: one adapter bound to one listener.  Before the       *)
(* command runs, api_key stands for the SEMANTIC_SCHOLAR_API_KEY variable  *)
(* of the environment                                                      *)
(***************************************************************************)
TransportChoice == {"stdio", "http"}
ServeHost == "127.0.0.1"
ServePort == "8000"

\* the command lines: TRANSPORT given (one of them not a choice) or left out,
\* --api-key given or left out, --debug set or not
ServeOptions ==
  {[NoOptions EXCEPT !["transport"] = t, !["api_key"] = k, !["debug"] = BoolV(d)] :
     t \in {Absent, StrV("stdio"), StrV("http"), StrV("sse")},
     k \in {Absent, StrV(""), StrV("cli-key")},
     d \in BOOLEAN}

\* click: the option wins over the environment variable, and an unset or empty
\* variable gives None
ResolvedKey(option, environment) ==
  IF option # Absent THEN option
  ELSE IF Truthy(environment) THEN environment ELSE NoneV

\* the lines serve prints; the symbol that leads some of them is left out
ServeLines(debug, key, transport) ==
  (IF debug THEN <<"Debug mode enabled">> ELSE <<>>)
  \o (IF Truthy(key)
      THEN <<"Semantic Scholar API key configured">>
      ELSE <<"No Semantic Scholar API key found (set SEMANTIC_SCHOLAR_API_KEY environment variable for higher rate limits)">>)
  \o <<"\nAvailable tools:",
       "  search_paper - Search for papers using Semantic Scholar",
       "  get_paper - Get detailed information about a specific paper",
       "  get_authors - Get authors information for a specific paper",
       "  get_citation - Get citation information in various formats">>
  \o (IF transport = "http"
      THEN <<"\nStarting HTTP server on http://" \o ServeHost \o ":" \o ServePort,
             "Available endpoints:",
             "  HTTP  http://" \o ServeHost \o ":" \o ServePort
               \o "/mcp - MCP over HTTP endpoint">>
      ELSE <<"\nStarting Semantic Scholar MCP Server...",
             "Server will communicate via stdio (MCP standard)",
             "Server ready. Waiting for MCP client connection...">>)

\* a serve whose branches are two ifs: with http the standard-stream listener
\* is started as well
serve_both(options) ==
  /\ pc = "idle"
  /\ command = NoCommand
  /\ served = NoServe
  /\ command' = [name |-> "serve", options |-> options]
  /\ LET transport == IF options["transport"] = Absent THEN "stdio"
                      ELSE options["transport"].s
         key == ResolvedKey(options["api_key"], api_key)
     IN IF transport \notin TransportChoice
        THEN /\ exit_code' = IntV(2)
             /\ pc' = "exited"
             /\ UNCHANGED <<api_key, stdout, served>>
        ELSE /\ api_key' = key
             /\ stdout' = ServeLines(Truthy(options["debug"]), key, transport)
             /\ served' = [adapters |-> <<key>>,
                           listeners |-> IF transport = "http"
                                         THEN <<"http", "stdio">>
                                         ELSE <<"stdio">>]
             /\ UNCHANGED <<pc, exit_code>>
  /\ UNCHANGED <<base_url, name, handler, arguments, request, wire, response,
                 result, raised, discovery, listing, slots, issued>>

\* serve TRANSPORT [--api-key K] [--debug]: the adapter is constructed and the
\* listener of the transport runs; a TRANSPORT that is no choice ends the
\* command before its body
serve(options) ==
  /\ pc = "idle"
  /\ command = NoCommand
  /\ served = NoServe
  /\ command' = [name |-> "serve", options |-> options]
  /\ LET transport == IF options["transport"] = Absent THEN "stdio"
                      ELSE options["transport"].s
         key == ResolvedKey(options["api_key"], api_key)
     IN IF transport \notin TransportChoice
        THEN /\ exit_code' = IntV(2)
             /\ pc' = "exited"
             /\ UNCHANGED <<api_key, stdout, served>>
        ELSE /\ api_key' = key
             /\ stdout' = ServeLines(Truthy(options["debug"]), key, transport)
             /\ served' = [adapters |-> <<key>>,
                           listeners |-> IF transport = "http"
                                         THEN <<"http">>
                                         ELSE <<"stdio">>]
             /\ UNCHANGED <<pc, exit_code>>
  /\ UNCHANGED <<base_url, name, handler, arguments, request, wire, response,
                 result, raised, discovery, listing, slots, issued>>

\* the calls a client makes through the listener serve has started
Listening == served.listeners # <<>>

NextServe ==
  \/ \E options \in ServeOptions : serve(options)
  \/ /\ Listening
     /\ \E n \in CallNames : \E args \in RequiredArgs(n) : handle_call_tool(n, args)
  \/ Progress
  \/ Return

SpecServe == Init /\ [][NextServe]_vars
(***************************************************************************)
(* Concurrent calls: the protocol host runs every call as a task of its    *)
(* own on the one adapter; a task keeps its arguments, request, response   *)
(* and result in local variables, and tasks interleave at the awaits       *)
(***************************************************************************)
\* the request handler n assembles from args, or the exception of the attempt
RequestOf(key, base, n, args) ==
  CASE n = "search_paper" -> search_paper_request(key, base, args)
    [] n = "get_paper" -> get_paper_request(key, base, args)
    [] n = "get_authors" -> get_authors_request(key, base, args)
    [] OTHER -> get_citation_request(key, base, args)

LabelOf(n) ==
  CASE n = "search_paper" -> SearchLabel
    [] n = "get_paper" -> PaperLabel
    [] n = "get_authors" -> AuthorsLabel
    [] OTHER -> CitationLabel

\* what handler n returns once its request has come back with resp
ResultOf(n, args, resp) ==
  CASE n = "search_paper" -> Except(SearchLabel, search_paper_response(args, resp))
    [] n = "get_paper" -> Except(PaperLabel, get_paper_response(args, resp))
    [] n = "get_authors" -> Except(AuthorsLabel, get_authors_response(args, resp))
    [] OTHER -> Except(CitationLabel, get_citation_response(args, resp))

\* the calls that run side by side, and what their requests come back with
ConcurrentCalls ==
  {<<"search_paper", Put(NoArgs, "query", StrV("machine learning"))>>,
   <<"search_paper", NoArgs>>,
   <<"get_paper", Put(NoArgs, "paper_id", StrV("abc"))>>,
   <<"get_authors", Put(NoArgs, "paper_id", StrV("abc"))>>}

ConcurrentOutcomes ==
  {Response(200, JsonDumps(CitationBody), CitationBody),
   Response(500, "Internal Server Error", JInvalid),
   RequestException("Request timed out")}

\* handle_call_tool(name, arguments) in task s
Call(s, n, args) ==
  /\ slots[s].pc = "idle"
  /\ slots' = [slots EXCEPT ![s].pc = "called", ![s].name = n,
                             ![s].arguments = args]
  /\ UNCHANGED <<api_key, base_url, call, discovery, console, issued, served>>

\* the try block of the handler of task s, up to its request
BuildIn(s) ==
  /\ slots[s].pc = "called"
  /\ LET built == RequestOf(api_key, base_url, slots[s].name, slots[s].arguments)
         caught == Except(LabelOf(slots[s].name), built)
     IN slots' = IF built.ok
                 THEN [slots EXCEPT ![s].pc = "built", ![s].request = built.v]
                 ELSE [slots EXCEPT ![s].pc = "done",
                                    ![s].result = caught.returned,
                                    ![s].raised = caught.raised]
  /\ UNCHANGED <<api_key, base_url, call, discovery, console, issued, served>>

\* a task that takes the response an equal call already has, if there is one
IssueIn_cached(s) ==
  /\ slots[s].pc = "built"
  /\ LET same == {t \in DOMAIN slots :
                    /\ t # s
                    /\ slots[t].name = slots[s].name
                    /\ slots[t].arguments = slots[s].arguments
                    /\ slots[t].response # NoResponse}
     IN IF same = {}
        THEN /\ issued' = Append(issued, [slot |-> s, request |-> slots[s].request])
             /\ slots' = [slots EXCEPT ![s].pc = "awaiting"]
        ELSE /\ issued' = issued
             /\ slots' = [slots EXCEPT
                            ![s].pc = "responded",
                            ![s].response = slots[CHOOSE t \in same : TRUE].response]
  /\ UNCHANGED <<api_key, base_url, call, discovery, console, served>>

\* a handler that keeps the request in an attribute of the adapter: the task
\* sends what the last task to assemble one has left there
IssueIn_shared(s) ==
  /\ slots[s].pc = "built"
  /\ LET others == {t \in DOMAIN slots : t > s /\ slots[t].request # NoRequest}
         kept == IF others = {} THEN slots[s].request
                 ELSE slots[CHOOSE t \in others : TRUE].request
     IN issued' = Append(issued, [slot |-> s, request |-> kept])
  /\ slots' = [slots EXCEPT ![s].pc = "awaiting"]
  /\ UNCHANGED <<api_key, base_url, call, discovery, console, served>>

\* await asyncio.to_thread(requests.get, ...) in task s: the request leaves
IssueIn(s) ==
  /\ slots[s].pc = "built"
  /\ issued' = Append(issued, [slot |-> s, request |-> slots[s].request])
  /\ slots' = [slots EXCEPT ![s].pc = "awaiting"]
  /\ UNCHANGED <<api_key, base_url, call, discovery, console, served>>

\* the request of task s comes back; the threads finish in any order
UpstreamIn(s, outcome) ==
  /\ slots[s].pc = "awaiting"
  /\ slots' = [slots EXCEPT ![s].pc = "responded", ![s].response = outcome]
  /\ UNCHANGED <<api_key, base_url, call, discovery, console, issued, served>>

\* the rest of the try block of task s, and the except clause
MapIn(s) ==
  /\ slots[s].pc = "responded"
  /\ LET mapped == ResultOf(slots[s].name, slots[s].arguments, slots[s].response)
     IN slots' = [slots EXCEPT ![s].pc = "done",
                                ![s].result = mapped.returned,
                                ![s].raised = mapped.raised]
  /\ UNCHANGED <<api_key, base_url, call, discovery, console, issued, served>>

NextConcurrent ==
  \/ \E s \in DOMAIN slots : \E c \in ConcurrentCalls : Call(s, c[1], c[2])
  \/ \E s \in DOMAIN slots : BuildIn(s)
  \/ \E s \in DOMAIN slots : IssueIn(s)
  \/ \E s \in DOMAIN slots : \E outcome \in ConcurrentOutcomes : UpstreamIn(s, outcome)
  \/ \E s \in DOMAIN slots : MapIn(s)

SpecConcurrent == Init /\ [][NextConcurrent]_vars
(***************************************************************************)
(* Properties                                                              *)
(***************************************************************************)
Text(x) == [type |-> "text", text |-> x]

Done == pc = "done" /\ handler # "none"
Answered == Done /\ response.kind = "response"
IdScoped == {"_handle_get_paper", "_handle_get_authors", "_handle_get_citation"}

\* C1: a call of any of the four operations, whatever its arguments and
\* whatever the upstream outcome (status, body, exception), returns a list of
\* exactly one text result, and no exception leaves the operation.
C1_OneResultNeverRaises ==
  Done => /\ raised = NoneV
          /\ Len(result) = 1
          /\ result[1].type = "text"

\* C1 witness: a call whose request failed with an exception has returned
\* its one result.
C1_Witness ==
  /\ Done
  /\ response.kind = "exception"
  /\ Len(result) = 1
  /\ raised = NoneV

\* C2: the limit sent upstream is min(requested, cap), cap 100 for
\* search_paper and 1000 for get_authors: above the cap the cap is sent, at
\* or below it (0 and negative values too) the requested value.
C2_LimitClamped ==
  \A x \in 1..Len(wire) :
    (/\ handler \in {"_handle_search_paper", "_handle_get_authors"}
     /\ arguments["limit"].t = "int")
    => LET cap == IF handler = "_handle_search_paper" THEN 100 ELSE 1000
           requested == arguments["limit"].i
       IN wire[x].params["limit"]
            = IntV(IF requested > cap THEN cap ELSE requested)

\* C2 witness: search_paper asked for 200 results and 100 were requested
\* upstream.
C2_Witness ==
  /\ handler = "_handle_search_paper"
  /\ arguments["limit"] = IntV(200)
  /\ Len(wire) = 1
  /\ wire[1].params["limit"] = IntV(100)

\* C3: a search_paper request carries the query parameter openAccessPdf
\* exactly when the argument is present and truthy, and then with the empty
\* string as its value.
C3_OpenAccessPdfFlag ==
  \A x \in 1..Len(wire) :
    handler = "_handle_search_paper"
    => LET sent == wire[x].params["openAccessPdf"]
           given == arguments["openAccessPdf"]
       IN /\ (sent.t # "absent") <=> (given.t # "absent" /\ Truthy(given))
          /\ sent.t # "absent" => sent = StrV("")

\* C3 witness: openAccessPdf=True was given and the empty string was sent.
C3_Witness ==
  /\ handler = "_handle_search_paper"
  /\ arguments["openAccessPdf"] = BoolV(TRUE)
  /\ Len(wire) = 1
  /\ wire[1].params["openAccessPdf"] = StrV("")

\* C4: every request issued carries Accept: application/json, and carries
\* x-api-key exactly when the adapter's api_key is a non-empty string, with
\* that key as its value.
C4_Headers ==
  \A x \in 1..Len(wire) :
    LET sent == wire[x].headers["x-api-key"]
    IN /\ wire[x].headers["Accept"] = StrV("application/json")
       /\ (sent.t # "absent") <=> (api_key.t = "str" /\ api_key.s # "")
       /\ sent.t # "absent" => sent = api_key

\* C4 witness: an adapter built with the empty string as its key has issued
\* a request without x-api-key.
C4_Witness ==
  /\ api_key = StrV("")
  /\ Len(wire) = 1
  /\ wire[1].headers["x-api-key"] = Absent
  /\ wire[1].headers["Accept"] = StrV("application/json")

\* C5: get_paper, get_authors and get_citation answer a 404 for paper_id X
\* with exactly "Paper not found: X", whatever the body.
C5_NotFound ==
  (/\ Answered
   /\ handler \in IdScoped
   /\ response.status_code = 404)
  => result = <<Text("Paper not found: " \o arguments["paper_id"].s)>>

\* C5 witness: a 404 with a non-empty body for the empty paper_id.
C5_Witness ==
  /\ Answered
  /\ handler = "_handle_get_citation"
  /\ response.status_code = 404
  /\ response.text # ""
  /\ arguments["paper_id"] = StrV("")
  /\ result = <<Text("Paper not found: ")>>

\* C6: search_paper for every status but 200, and the three paper_id
\* operations for every status but 200 and 404, return
\* "Error: API returned status {code}: {body_text}" with the status and the
\* raw body text, parseable or not.
C6_GenericError ==
  (/\ Answered
   /\ response.status_code # 200
   /\ \/ handler = "_handle_search_paper"
      \/ handler \in IdScoped /\ response.status_code # 404)
  => result = <<Text("Error: API returned status "
                     \o ToString(response.status_code) \o ": " \o response.text)>>

\* C6 witness: search_paper got a 204 whose body is not JSON text.
C6_Witness ==
  /\ Answered
  /\ handler = "_handle_search_paper"
  /\ response.status_code = 204
  /\ response.json = JInvalid
  /\ result = <<Text("Error: API returned status 204: ")>>

\* the label the claim gives each operation
C7_Label(h) ==
  CASE h = "_handle_search_paper" -> "Error searching papers: "
    [] h = "_handle_get_paper" -> "Error getting paper details: "
    [] h = "_handle_get_authors" -> "Error getting authors: "
    [] OTHER -> "Error generating citation: "

\* the request raised, or the 200 body could not be parsed
C7_Failed ==
  \/ response.kind = "exception"
  \/ /\ response.kind = "response"
     /\ response.status_code = 200
     /\ response.json = JInvalid

\* str(e) of the exception that occurred
C7_Message ==
  IF response.kind = "exception"
  THEN response.exc
  ELSE "Expecting value: line 1 column 1 (char 0)"

\* C7: an exception raised by the request or by parsing a 200 body becomes
\* a text that starts with the label of the operation it occurred in and
\* ends with the exception's message; no other operation's label is used.
C7_LabelledException ==
  (Done /\ C7_Failed)
  => /\ Len(result) = 1
     /\ result[1].text = C7_Label(handler) \o C7_Message
     /\ StartsWith(result[1].text, C7_Label(handler))
     /\ EndsWith(result[1].text, C7_Message)
     /\ \A h \in IdScoped \cup {"_handle_search_paper"} :
          h # handler => ~StartsWith(result[1].text, C7_Label(h))

\* C7 witness: get_authors timed out and says so under its own label.
C7_Witness ==
  /\ Done
  /\ handler = "_handle_get_authors"
  /\ response.kind = "exception"
  /\ response.exc = "Request timed out"
  /\ result = <<Text("Error getting authors: Request timed out")>>

\* C8: search_paper and get_paper answer a 200 with a parseable body B with
\* one result whose text is str(B), nothing added and nothing removed.
C8_PassThrough ==
  (/\ Answered
   /\ handler \in {"_handle_search_paper", "_handle_get_paper"}
   /\ response.status_code = 200
   /\ response.json # JInvalid)
  => result = <<Text(PyStr(response.json))>>

\* C8 witness: the search body of the end-to-end scenario, rendered.
C8_Witness ==
  /\ Answered
  /\ handler = "_handle_search_paper"
  /\ response.status_code = 200
  /\ response.json = SearchBody
  /\ result = <<Text("{'total': 1, 'data': [{'paperId': 'abc', 'title': 'T'}]}")>>

\* C9: get_authors answers a 200 with a JSON object B with one result whose
\* text is str(B), as the other pass-through operations do, and not with an
\* error message.
C9_AuthorsPassThrough ==
  (/\ Answered
   /\ handler = "_handle_get_authors"
   /\ response.status_code = 200
   /\ response.json.kind = "object")
  => /\ result = <<Text(PyStr(response.json))>>
     /\ ~StartsWith(result[1].text, "Error")

\* C10: get_citation answers a 200 whose JSON object has no citationStyles
\* key with exactly "No citation styles available for this paper.",
\* whatever format was asked for.
C10_NoCitationStyles ==
  (/\ Answered
   /\ handler = "_handle_get_citation"
   /\ response.status_code = 200
   /\ response.json.kind = "object"
   /\ ~HasKey(response.json, "citationStyles"))
  => result = <<Text("No citation styles available for this paper.")>>

\* C10 witness: a body without citationStyles, asked for in a format no
\* paper has.
C10_Witness ==
  /\ Answered
  /\ handler = "_handle_get_citation"
  /\ response.status_code = 200
  /\ response.json = NoStylesBody
  /\ arguments["format"] = StrV("xml")
  /\ result = <<Text("No citation styles available for this paper.")>>

\* the format a get_citation call looks up: the argument in lower case,
\* "bibtex" when the call has none
RequestedFormat ==
  IF arguments["format"] = Absent THEN "bibtex" ELSE Lower(arguments["format"].s)

\* the call in progress is a get_citation that a 200 answered whose body is a
\* JSON object holding a citationStyles mapping
StylesAnswered ==
  /\ Answered
  /\ handler = "_handle_get_citation"
  /\ response.status_code = 200
  /\ response.json.kind = "object"
  /\ HasKey(response.json, "citationStyles")
  /\ Lookup(response.json, "citationStyles").kind = "object"

\* C11: get_citation answers a 200 whose citationStyles mapping has no key
\* for the requested format F (in lower case) with exactly "Citation format
\* 'F' not available. Available formats for this paper: K", K the keys of the
\* mapping joined by ", " in their order; the placeholder is not returned.
C11_FormatNotAvailable ==
  (/\ StylesAnswered
   /\ ~HasKey(Lookup(response.json, "citationStyles"), RequestedFormat))
  => /\ result =
          <<Text("Citation format '" \o RequestedFormat
                 \o "' not available. Available formats for this paper: "
                 \o Join(", ", Keys(Lookup(response.json, "citationStyles"))))>>
     /\ result[1].text # "TODO"

\* C11 witness: "xml" asked of a paper that has bibtex and apa
C11_Witness ==
  /\ StylesAnswered
  /\ response.json = TwoStylesBody
  /\ arguments["format"] = StrV("xml")
  /\ result = <<Text("Citation format 'xml' not available. "
                     \o "Available formats for this paper: bibtex, apa")>>

\* C12: get_citation answers a 200 whose citationStyles mapping holds the
\* requested format with the fixed placeholder "TODO", whatever the citation
\* string, whether or not the body has an abstract, and whatever the format.
C12_Placeholder ==
  (/\ StylesAnswered
   /\ HasKey(Lookup(response.json, "citationStyles"), RequestedFormat))
  => result = <<Text("TODO")>>

\* C12 witness: "APA" asked of a paper that has an apa citation and no
\* abstract
C12_Witness ==
  /\ StylesAnswered
  /\ response.json = TwoStylesBody
  /\ ~HasKey(response.json, "abstract")
  /\ arguments["format"] = StrV("APA")
  /\ result = <<Text("TODO")>>

\* C12 witness for the other citation string: bibtex asked of a paper that
\* has an abstract
C12_WitnessAbstract ==
  /\ StylesAnswered
  /\ response.json = CitationBody
  /\ HasKey(response.json, "abstract")
  /\ RequestedFormat = "bibtex"
  /\ result = <<Text("TODO")>>

\* the arguments of the call in progress with the format in lower case
LoweredArguments ==
  Put(arguments, "format", StrV(Lower(arguments["format"].s)))

\* C13: get_citation takes any string as format and is blind to its letter
\* case: a call with a string format issues the request and returns the text
\* that the call with the same format in lower case returns for the same
\* upstream response, and a format outside bibtex, apa, mla and chicago is
\* looked up in citationStyles like any other (no local rejection).
C13_FormatAnyCase ==
  (/\ Done
   /\ handler = "_handle_get_citation"
   /\ arguments["format"].t = "str")
  => /\ arguments["paper_id"] # Absent
        => /\ response.kind # "none"
           /\ wire = <<get_citation_request(api_key, base_url, LoweredArguments).v>>
           /\ result = Except(CitationLabel,
                              get_citation_response(LoweredArguments, response)).returned
     /\ StylesAnswered
        => (result = <<Text("TODO")>>
            <=> HasKey(Lookup(response.json, "citationStyles"),
                       Lower(arguments["format"].s)))

\* C13 witness: "BibTeX" finds the bibtex citation
C13_Witness ==
  /\ StylesAnswered
  /\ arguments["format"] = StrV("BibTeX")
  /\ HasKey(Lookup(response.json, "citationStyles"), "bibtex")
  /\ ~HasKey(Lookup(response.json, "citationStyles"), "BibTeX")
  /\ Len(wire) = 1
  /\ result = <<Text("TODO")>>

\* C13 witness for a format outside the recognized ones: the request was
\* issued and the answer names the formats the paper has
C13_WitnessUnrecognized ==
  /\ StylesAnswered
  /\ arguments["format"].t = "str"
  /\ Lower(arguments["format"].s) \notin RecognizedFormats
  /\ Len(wire) = 1
  /\ StartsWith(result[1].text, "Citation format 'xml' not available.")

\* C14: the dispatch runs, for each of the four tool names, the handler of
\* that name; a call with any other name ends at once with the exception
\* "Unknown tool: <name>" leaving the dispatch: no handler runs, no list of
\* text results is returned and no request is assembled or issued.
C14_Dispatch ==
  pc # "idle"
  => /\ name \in ToolNames => handler = "_handle_" \o name
     /\ name \notin ToolNames
        => /\ pc = "done"
           /\ handler = "none"
           /\ raised = StrV("Unknown tool: " \o name)
           /\ result = <<>>
           /\ request = NoRequest
           /\ wire = <<>>

\* C14 witness: a call of list_papers has raised
C14_Witness ==
  /\ pc = "done"
  /\ name = "list_papers"
  /\ arguments["paper_id"] = StrV("abc")
  /\ raised = StrV("Unknown tool: list_papers")
  /\ result = <<>>
  /\ wire = <<>>

\* C15: read_resource returns the paper-fields document for
\* semantic-scholar://fields/paper and the author-fields document for
\* semantic-scholar://fields/author, and raises "Unknown resource: <uri>" for
\* every other URI; a read changes nothing of the adapter or of the call in
\* progress and issues no request.
C15_ReadResource ==
  /\ [](resource_read # NoRead
        => IF resource_read.uri = "semantic-scholar://fields/paper"
           THEN /\ resource_read.returned = StrV(_get_paper_fields_documentation)
                /\ resource_read.raised = NoneV
           ELSE IF resource_read.uri = "semantic-scholar://fields/author"
           THEN /\ resource_read.returned = StrV(_get_author_fields_documentation)
                /\ resource_read.raised = NoneV
           ELSE /\ resource_read.returned = NoneV
                /\ resource_read.raised
                     = StrV("Unknown resource: " \o resource_read.uri))
  /\ [][resource_read' # resource_read
        => UNCHANGED <<api_key, base_url, call, tool_lists, resource_lists>>]_vars

\* C15 witness: an unknown URI was read while a request was in flight, and
\* the request is the only one
C15_Witness ==
  /\ resource_read.uri = "semantic-scholar://fields/venue"
  /\ resource_read.raised = StrV("Unknown resource: semantic-scholar://fields/venue")
  /\ pc = "awaiting"
  /\ Len(wire) = 1

\* C15 witness for a known URI
C15_WitnessAuthor ==
  /\ resource_read.uri = "semantic-scholar://fields/author"
  /\ StartsWith(resource_read.returned.s, "# Author Fields Reference\n")
  /\ wire = <<>>

\* C16: every listing of the tools returns the same four descriptors and
\* every listing of the resources the same two, whatever calls, reads and
\* listings come before it or run at the same time: each listing is identical
\* to the first.
C16_ListingsIdentical ==
  /\ \A i \in 1..Len(tool_lists) :
       /\ tool_lists[i] = tool_lists[1]
       /\ [j \in 1..Len(tool_lists[i]) |-> tool_lists[i][j].name]
            = <<"search_paper", "get_paper", "get_authors", "get_citation">>
  /\ \A i \in 1..Len(resource_lists) :
       /\ resource_lists[i] = resource_lists[1]
       /\ [j \in 1..Len(resource_lists[i]) |-> resource_lists[i][j].uri]
            = <<"semantic-scholar://fields/paper",
                "semantic-scholar://fields/author">>

\* C16 witness: both lists were returned twice, around a call whose request
\* failed and a read that raised
C16_Witness ==
  /\ Len(tool_lists) = 2
  /\ Len(resource_lists) = 2
  /\ tool_lists[2] = tool_lists[1]
  /\ resource_lists[2] = resource_lists[1]
  /\ resource_read.raised # NoneV
  /\ pc = "responded"
  /\ response.kind = "exception"

\* C17: construction sets the base URL and the API key and issues no
\* request; after any sequence of listings, reads and calls, whether a call
\* succeeds, returns an error text or raises, base_url is still the fixed
\* endpoint and api_key still the constructor's argument.
C17_ConfigurationFixed ==
  /\ (wire = <<>> /\ request = NoRequest /\ pc = "idle")
  /\ [](base_url = "https://api.semanticscholar.org/graph/v1")
  /\ [][api_key' = api_key]_vars

\* C17 witness: an adapter constructed with a key has listed, read, and
\* answered a call of an unknown tool by raising
C17_Witness ==
  /\ api_key = StrV("test-key")
  /\ base_url = "https://api.semanticscholar.org/graph/v1"
  /\ tool_lists # <<>>
  /\ resource_read # NoRead
  /\ pc = "done"
  /\ raised = StrV("Unknown tool: list_papers")

\* C17 witness for a call that returned an error text
C17_WitnessErrorText ==
  /\ api_key = StrV("test-key")
  /\ base_url = "https://api.semanticscholar.org/graph/v1"
  /\ resource_lists # <<>>
  /\ pc = "done"
  /\ handler = "_handle_get_paper"
  /\ result = <<Text("Error getting paper details: Network error")>>

\* C18: a call without an optional argument uses its default: search_paper
\* requests fields "paperId,title,abstract,authors,year,citationCount",
\* offset 0 and limit 10; get_paper the twelve default fields; get_authors
\* fields "authorId,name,affiliations,citationCount,hIndex", offset 0 and
\* limit 100; get_citation looks up "bibtex".  An argument that is present
\* replaces the default with its value (the limit clamped to the cap).
C18_Defaults ==
  LET given(k, default) == IF arguments[k] = Absent THEN default ELSE arguments[k]
      limit(default, cap) ==
        IF arguments["limit"] = Absent THEN IntV(default)
        ELSE IntV(IF arguments["limit"].i > cap THEN cap ELSE arguments["limit"].i)
      styles == Lookup(response.json, "citationStyles")
  IN /\ (Len(wire) = 1 /\ handler = "_handle_search_paper")
        => /\ wire[1].params["fields"]
                = given("fields", StrV("paperId,title,abstract,authors,year,citationCount"))
           /\ wire[1].params["offset"] = given("offset", IntV(0))
           /\ wire[1].params["limit"] = limit(10, 100)
     /\ (Len(wire) = 1 /\ handler = "_handle_get_paper")
        => wire[1].params["fields"]
             = given("fields", StrV("paperId,title,abstract,authors,year,citationCount,"
                                    \o "referenceCount,fieldsOfStudy,publicationTypes,"
                                    \o "publicationDate,journal,openAccessPdf"))
     /\ (Len(wire) = 1 /\ handler = "_handle_get_authors")
        => /\ wire[1].params["fields"]
                = given("fields", StrV("authorId,name,affiliations,citationCount,hIndex"))
           /\ wire[1].params["offset"] = given("offset", IntV(0))
           /\ wire[1].params["limit"] = limit(100, 1000)
     /\ StylesAnswered
        => LET looked_up ==
                 IF arguments["format"] = Absent THEN "bibtex"
                 ELSE Lower(arguments["format"].s)
           IN IF HasKey(styles, looked_up)
              THEN result = <<Text("TODO")>>
              ELSE StartsWith(result[1].text,
                              "Citation format '" \o looked_up \o "' not available.")

\* C18 witness: a search_paper call with the query alone
C18_Witness ==
  /\ handler = "_handle_search_paper"
  /\ arguments = Put(NoArgs, "query", StrV("machine learning"))
  /\ Len(wire) = 1
  /\ wire[1].params["fields"] = StrV("paperId,title,abstract,authors,year,citationCount")
  /\ wire[1].params["offset"] = IntV(0)
  /\ wire[1].params["limit"] = IntV(10)

\* C18 witness for get_citation: no format given, and the paper has no
\* bibtex citation
C18_WitnessCitation ==
  /\ StylesAnswered
  /\ arguments["format"] = Absent
  /\ response.json = ApaStylesBody
  /\ result = <<Text("Citation format 'bibtex' not available. "
                     \o "Available formats for this paper: apa")>>

\* C18 witness for an argument that replaces its default
C18_WitnessGiven ==
  /\ handler = "_handle_get_authors"
  /\ arguments["offset"] = IntV(20)
  /\ Len(wire) = 1
  /\ wire[1].params["offset"] = IntV(20)
  /\ wire[1].params["limit"] = IntV(100)

\* the text results that end a call unsuccessfully
FailureText(text) ==
  \/ StartsWith(text, "Error ")
  \/ StartsWith(text, "API Error: ")
  \/ StartsWith(text, "Paper not found: ")

\* C19: a `tools` command of the command line runs the handler of its name
\* on the arguments parsed from its options, prints exactly the text of the
\* text result the handler returns, and exits with 0, also when the upstream
\* request fails (error status, 404, timeout, network error).
C19_CommandPrintsResult ==
  (pc = "exited" /\ command.name \in ToolNames)
  => /\ handler = "_handle_" \o command.name
     /\ arguments =
          CASE command.name = "search_paper" -> search_paper_args(command.options)
            [] command.name = "get_paper" -> get_paper_args(command.options)
            [] command.name = "get_authors" -> get_authors_args(command.options)
            [] OTHER -> get_citation_args(command.options)
     /\ Len(wire) = 1
     /\ Len(result) = 1
     /\ stdout = <<result[1].text>>
     /\ exit_code = IntV(0)

\* C19 witness: the search command has printed the error text of a request
\* that timed out and has exited with 0
C19_Witness ==
  /\ pc = "exited"
  /\ command.name = "search_paper"
  /\ response = RequestException("Request timed out")
  /\ stdout = <<"Error searching papers: Request timed out">>
  /\ exit_code = IntV(0)

\* C19 witness for a 404 and for a success
C19_WitnessNotFound ==
  /\ pc = "exited"
  /\ command.name = "get_citation"
  /\ response.status_code = 404
  /\ stdout = <<"Paper not found: abc">>
  /\ exit_code = IntV(0)

C19_WitnessSuccess ==
  /\ pc = "exited"
  /\ command.name = "get_paper"
  /\ response.status_code = 200
  /\ response.json = SearchBody
  /\ stdout = <<PyStr(SearchBody)>>
  /\ ~FailureText(stdout[1])
  /\ exit_code = IntV(0)

Range(s) == {s[x] : x \in DOMAIN s}

\* the form of the listing prints the parameters of the tools
PrintsParameters ==
  \/ command.options["output_format"] = StrV("json")
  \/ Truthy(command.options["verbose"])

\* C20: `tools list` shows the four tool descriptors of the adapter: in each
\* of its forms (text, JSON, table) the tools shown are the four that
\* list_tools() returns, and where the form prints parameters, the input
\* properties, the required properties and the declared defaults shown for
\* each tool are those of its descriptor.
C20_ListShowsDescriptors ==
  (pc = "exited" /\ command.name = "list")
  => /\ Len(listing) = Len(ToolList)
     /\ \A x \in 1..Len(listing) :
          /\ listing[x].name = ToolList[x].name
          /\ PrintsParameters
             => /\ Range(listing[x].properties) = Range(ToolList[x].properties)
                /\ Range(listing[x].required) = Range(ToolList[x].required)
                /\ listing[x].defaults = ToolList[x].defaults

\* the arguments of the call in progress let its handler assemble a request:
\* the required argument is there, a limit is a number and a format is text
Assemblable ==
  /\ arguments[IF handler = "_handle_search_paper" THEN "query" ELSE "paper_id"]
       # Absent
  /\ handler \in {"_handle_search_paper", "_handle_get_authors"}
     => arguments["limit"].t \in {"absent", "int", "bool"}
  /\ handler = "_handle_get_citation"
     => arguments["format"].t \in {"absent", "str"}

\* C21: a call that has returned has issued exactly one upstream request,
\* never none and never more, whatever its arguments and whatever the
\* upstream outcome.
C21_ExactlyOneRequest ==
  Done => Len(wire) = 1

\* C21, amended: a call never issues more than one request, and a call that
\* has returned has issued exactly one if its arguments let the request be
\* assembled and none otherwise.
C21_AtMostOneRequest ==
  /\ Len(wire) <= 1
  /\ Done => (Len(wire) = 1 <=> Assemblable)

\* C21 witness: a search answered by a 500 has returned after one request
C21_Witness ==
  /\ Done
  /\ handler = "_handle_search_paper"
  /\ response.status_code = 500
  /\ Len(wire) = 1
  /\ wire[1].url = BaseUrl \o "/paper/search"

\* C21 witness for a call without a request: search_paper without a query
C21_WitnessNoRequest ==
  /\ Done
  /\ handler = "_handle_search_paper"
  /\ arguments["query"] = Absent
  /\ wire = <<>>
  /\ Len(result) = 1

(***************************************************************************)
(* Concurrent calls: helpers                                               *)
(***************************************************************************)
\* the number of requests task s has sent so far
Sent(s) == Cardinality({i \in DOMAIN issued : issued[i].slot = s})

Failed(resp) ==
  \/ resp.kind = "exception"
  \/ resp.kind = "response" /\ resp.status_code # 200

ErrorMessage(text) ==
  \/ StartsWith(text, "Error")
  \/ StartsWith(text, "Paper not found: ")

SameCall(s, t) ==
  /\ s # t
  /\ slots[s].name = slots[t].name
  /\ slots[s].arguments = slots[t].arguments

\* C22: a call whose request ended in a non-200 status, a timeout or another
\* exception has sent exactly one request, sends no further one, and returns
\* exactly one error message; and of two calls with identical arguments each
\* has sent a request of its own once it has a response.
C22_NoRetryNoCache ==
  /\ [](\A s \in DOMAIN slots :
          Failed(slots[s].response)
          => /\ Sent(s) = 1
             /\ slots[s].pc = "done"
                => /\ Len(slots[s].result) = 1
                   /\ ErrorMessage(slots[s].result[1].text)
                   /\ slots[s].raised = NoneV)
  /\ [](\A s, t \in DOMAIN slots :
          SameCall(s, t) /\ slots[s].response # NoResponse
          => /\ Sent(s) = 1
             /\ \E i \in DOMAIN issued :
                  issued[i] = [slot |-> s, request |-> slots[s].request])
  /\ [][\A s \in DOMAIN slots :
          Failed(slots[s].response) => Sent(s)' = Sent(s)]_vars

\* two calls with identical arguments, the first failed and the second, made
\* after the first had returned, answered
C22_Witness ==
  /\ SameCall(1, 2)
  /\ slots[1].pc = "done" /\ slots[2].pc = "done"
  /\ slots[1].response = RequestException("Request timed out")
  /\ slots[1].result[1].text = PaperLabel \o "Request timed out"
  /\ slots[2].response.status_code = 200
  /\ ~ErrorMessage(slots[2].result[1].text)
  /\ Len(issued) = 2
  /\ issued[1].slot = 1 /\ issued[2].slot = 2
  /\ issued[1].request = issued[2].request

\* C23: within one call the stages run in the order build-request, issue,
\* await-one-response, map-to-TextResult: what is sent is the one request
\* assembled in full (URL, every query parameter, headers, timeout) from the
\* arguments, a response is there only after that request has been sent, a result
\* is produced only in a step that starts with the response or exception
\* already there (or with the assembling having failed, nothing sent), and a
\* later stage changes nothing an earlier stage has produced.
C23_StagesInOrder ==
  /\ [](wire # <<>>
        => /\ wire = <<request>>
           /\ request = RequestOf(api_key, base_url, name, arguments).v
           /\ request.timeout = RequestTimeout
           /\ request.headers = _get_headers(api_key))
  /\ [](response # NoResponse => Len(wire) = 1)
  /\ [](result # <<>>
        => \/ response # NoResponse
           \/ request = NoRequest /\ wire = <<>>)
  /\ [][/\ wire = <<>> /\ wire' # <<>> => request # NoRequest /\ request' = request
        /\ response = NoResponse /\ response' # NoResponse
           => wire # <<>> /\ wire' = wire /\ result' = <<>>
        /\ result = <<>> /\ result' # <<>>
           => /\ response' = response /\ wire' = wire /\ request' = request
              /\ response # NoResponse \/ request = NoRequest]_vars

C23_Witness ==
  /\ Done
  /\ handler = "_handle_get_paper"
  /\ wire = <<request>>
  /\ request.url = BaseUrl \o "/paper/abc"
  /\ response.kind = "response" /\ response.status_code = 200
  /\ Len(result) = 1

\* the request raised: the result is there after the exception
C23_WitnessException ==
  /\ Done
  /\ wire = <<request>>
  /\ response.kind = "exception"
  /\ Len(result) = 1
  /\ StartsWith(result[1].text, SearchLabel)

\* C24: calls running concurrently on one adapter do not interfere: in every
\* interleaving a call that is done has returned exactly one text and raised
\* nothing, the text is the one its handler computes from the call's own
\* arguments and own response, the one request it has sent is the one assembled
\* from its own arguments, a step of one call leaves every other call as it
\* was, and no step writes the adapter's api_key or base_url.
C24_NoInterference ==
  /\ [](\A s \in DOMAIN slots :
          slots[s].pc = "done"
          => /\ Len(slots[s].result) = 1
             /\ slots[s].raised = NoneV
             /\ IF slots[s].response = NoResponse
                THEN /\ Sent(s) = 0
                     /\ slots[s].result =
                          Except(LabelOf(slots[s].name),
                                 RequestOf(api_key, base_url, slots[s].name,
                                           slots[s].arguments)).returned
                ELSE /\ Sent(s) = 1
                     /\ slots[s].result =
                          ResultOf(slots[s].name, slots[s].arguments,
                                   slots[s].response).returned)
  /\ [](\A i \in DOMAIN issued :
          issued[i].request =
            RequestOf(api_key, base_url, slots[issued[i].slot].name,
                      slots[issued[i].slot].arguments).v)
  /\ [](\A s, t \in DOMAIN slots :
          /\ SameCall(s, t)
          /\ slots[s].pc = "done" /\ slots[t].pc = "done"
          /\ slots[s].response = slots[t].response
          => slots[s].result = slots[t].result)
  /\ [][/\ api_key' = api_key
        /\ base_url' = base_url
        /\ \A s, t \in DOMAIN slots :
             s # t /\ slots[s]' # slots[s] => slots[t]' = slots[t]]_vars

\* two different calls in flight together, the second one sent first; one is
\* answered and one times out, and each has the text of its own outcome
C24_Witness ==
  /\ slots[1].pc = "done" /\ slots[2].pc = "done"
  /\ slots[1].name = "search_paper" /\ slots[2].name = "get_paper"
  /\ Len(issued) = 2
  /\ issued[1].slot = 2 /\ issued[2].slot = 1
  /\ issued[1].request.url = BaseUrl \o "/paper/abc"
  /\ issued[2].request.url = BaseUrl \o "/paper/search"
  /\ slots[1].response.status_code = 200
  /\ slots[2].response = RequestException("Request timed out")
  /\ slots[1].result[1].text = PyStr(CitationBody)
  /\ slots[2].result[1].text = PaperLabel \o "Request timed out"

\* C25: every started call eventually returns one text and raises nothing,
\* given that its request eventually responds or raises; the request goes out
\* with the timeout of 30, and a call whose request timed out or raised
\* anything else returns its operation's error label followed by the message
\* of the exception.
C25_EveryCallReturns ==
  /\ (pc = "called" /\ handler # "none")
       ~> (Done /\ Len(result) = 1 /\ raised = NoneV)
  /\ [](wire # <<>> => wire[1].timeout = RequestTimeout)
  /\ [](Done /\ response.kind = "exception"
        => result = <<Text(LabelOf(name) \o response.exc)>>)

C25_Witness ==
  /\ Done
  /\ handler = "_handle_get_citation"
  /\ response = RequestException("Request timed out")
  /\ Len(wire) = 1
  /\ wire[1].timeout = 30
  /\ result = <<Text("Error generating citation: Request timed out")>>

\* C26: serve constructs exactly one adapter, with the api key given by
\* --api-key or else by the environment, and starts exactly one listener: the
\* HTTP one when TRANSPORT is http, the standard-stream one otherwise (stdio
\* being the default); at no time has a process more than one adapter or more
\* than one listener, and the calls served use the adapter's key.
C26_OneAdapterOneTransport ==
  /\ [](/\ Len(served.adapters) <= 1
        /\ Len(served.listeners) <= 1
        /\ Len(served.listeners) = Len(served.adapters)
        /\ served.adapters # <<>> => api_key = served.adapters[1]
        /\ served.listeners # <<>>
           => served.listeners[1] =
                IF command.options["transport"] = StrV("http") THEN "http"
                ELSE "stdio")
  /\ [][command' # command /\ command'.name = "serve" /\ exit_code' = exit_code
        => /\ served.adapters = <<>>
           /\ served'.adapters =
                <<IF command'.options["api_key"] # Absent
                  THEN command'.options["api_key"]
                  ELSE IF api_key \in {NoneV, StrV("")} THEN NoneV ELSE api_key>>
           /\ Len(served'.listeners) = 1]_vars
  /\ [][served.listeners # <<>> => served' = served /\ api_key' = api_key]_vars

\* serve http --api-key cli-key, with a call served through the listener
C26_Witness ==
  /\ command.name = "serve"
  /\ command.options["transport"] = StrV("http")
  /\ served = [adapters |-> <<StrV("cli-key")>>, listeners |-> <<"http">>]
  /\ Done
  /\ Len(wire) = 1
  /\ wire[1].headers = _get_headers(StrV("cli-key"))

\* serve with no TRANSPORT and no --api-key: stdio, and the key of the
\* environment
C26_WitnessDefault ==
  /\ command.name = "serve"
  /\ command.options["transport"] = Absent
  /\ command.options["api_key"] = Absent
  /\ served = [adapters |-> <<StrV("test-key")>>, listeners |-> <<"stdio">>]

\* C27: in search_paper each of publicationTypes, minCitationCount,
\* publicationDateOrYear, year, venue and fieldsOfStudy is a query parameter of
\* the request sent exactly when its key is in the arguments, and then with the
\* value supplied, 0 and the empty string included; a key that is not a
\* documented one is not forwarded.
C27_FiltersForwarded ==
  wire # <<>> /\ handler = "_handle_search_paper"
  => /\ \A i \in DOMAIN PassThroughKeys :
          wire[1].params[PassThroughKeys[i]] = arguments[PassThroughKeys[i]]
     /\ \A k \in {"extra", "paper_id", "format"} : wire[1].params[k] = Absent

\* minCitationCount 0 is sent as 0
C27_Witness ==
  /\ handler = "_handle_search_paper"
  /\ arguments["minCitationCount"] = IntV(0)
  /\ Len(wire) = 1
  /\ wire[1].params["minCitationCount"] = IntV(0)
  /\ wire[1].params["year"] = Absent

\* an empty year is sent as the empty string
C27_WitnessEmpty ==
  /\ handler = "_handle_search_paper"
  /\ arguments["year"] = StrV("")
  /\ Len(wire) = 1
  /\ wire[1].params["year"] = StrV("")

\* a key that is not documented stays behind
C27_WitnessExtra ==
  /\ handler = "_handle_search_paper"
  /\ arguments["extra"] = StrV("x")
  /\ Len(wire) = 1
  /\ wire[1].params["extra"] = Absent

\* C28: a call whose required argument (query for search_paper, paper_id for
\* the other three) is absent sends no request at any time, and returns one
\* text that starts with the error label of its operation; it raises nothing.
C28_MissingRequired ==
  handler # "none" /\ arguments[RequiredKey(name)] = Absent
  => /\ wire = <<>>
     /\ request = NoRequest
     /\ response = NoResponse
     /\ pc = "done"
        => /\ Len(result) = 1
           /\ StartsWith(result[1].text, LabelOf(name))
           /\ raised = NoneV

\* get_citation without paper_id, a format given
C28_Witness ==
  /\ Done
  /\ handler = "_handle_get_citation"
  /\ arguments["paper_id"] = Absent
  /\ arguments["format"] = StrV("apa")
  /\ wire = <<>>
  /\ result = <<Text("Error generating citation: 'paper_id'")>>

\* search_paper without query
C28_WitnessSearch ==
  /\ Done
  /\ handler = "_handle_search_paper"
  /\ arguments["query"] = Absent
  /\ wire = <<>>
  /\ result = <<Text("Error searching papers: 'query'")>>

(***************************************************************************)
(* Declared and applied defaults                                           *)
(***************************************************************************)
\* the descriptor list_tools() returns for the tool called
Descriptor == ToolList[CHOOSE x \in DOMAIN ToolList : ToolList[x].name = name]

\* the call made differs from a call that passes the declared default of k
\* explicitly, in the request sent or in the result
DefaultDiffers(k) ==
  LET explicit == Put(arguments, k, Descriptor.defaults[k])
      built == RequestOf(api_key, base_url, name, explicit)
  IN IF wire = <<>>
     THEN \/ built.ok
          \/ result # Except(LabelOf(name), built).returned
     ELSE \/ built # Ok(wire[1])
          \/ result # ResultOf(name, explicit, response).returned

\* C29: for every optional parameter for which the descriptor of the tool
\* declares a default, a finished call that omits the parameter has sent the
\* same request and returned the same result as the call that passes the
\* declared default explicitly.
C29_DeclaredDefaultsApplied ==
  Done /\ name \in ToolNames
  => \A k \in ArgKeys :
       Descriptor.defaults[k] # Absent /\ arguments[k] = Absent
       => ~DefaultDiffers(k)

\* C30: the api key influences nothing but the x-api-key header: the request
\* sent has the URL, the query parameters, the timeout and the Accept header
\* that an adapter with any other key sends for the same call, the result is
\* the one the handler computes from the arguments and the response alone, and
\* a key that is set occurs in no URL, no query parameter and no result text.
C30_KeyOnlyInHeader ==
  /\ wire # <<>>
     => /\ \A key \in ApiKeys :
             LET other == RequestOf(key, base_url, name, arguments).v
             IN /\ other.url = wire[1].url
                /\ other.params = wire[1].params
                /\ other.timeout = wire[1].timeout
                /\ other.headers["Accept"] = wire[1].headers["Accept"]
                /\ other.headers["x-api-key"] \in {Absent, key}
        /\ wire[1].headers["x-api-key"] \in {Absent, api_key}
  /\ Done
     => \A key \in ApiKeys :
          result = IF wire = <<>>
                   THEN Except(LabelOf(name),
                               RequestOf(key, base_url, name, arguments)).returned
                   ELSE ResultOf(name, arguments, response).returned
  /\ api_key.t = "str" /\ api_key.s # ""
     => /\ \A i \in DOMAIN wire :
             /\ ~Contains(wire[i].url, api_key.s)
             /\ \A k \in ArgKeys : ~Contains(wire[i].params[k].s, api_key.s)
        /\ \A i \in DOMAIN result : ~Contains(result[i].text, api_key.s)

\* a call with the key set: the key is in the header, and the call is done
C30_Witness ==
  /\ Done
  /\ api_key = StrV("test-key")
  /\ handler = "_handle_get_paper"
  /\ Len(wire) = 1
  /\ wire[1].headers["x-api-key"] = StrV("test-key")
  /\ wire[1].url = BaseUrl \o "/paper/abc"
  /\ response.status_code = 200
  /\ Len(result) = 1

\* the same call on an adapter without a key: no such header
C30_WitnessNoKey ==
  /\ Done
  /\ api_key = NoneV
  /\ handler = "_handle_get_paper"
  /\ Len(wire) = 1
  /\ wire[1].headers["x-api-key"] = Absent
  /\ wire[1].url = BaseUrl \o "/paper/abc"

====
